---- MODULE Spec2Model ----
(***************************************************************************)
(* Settlement core of the wiseramp backend: the sweep retry queue          *)
(* (SweeperQueueService), the chain scanner and watch registry             *)
(* (HypersyncWorker), the order store (PostgresTransactionService) and the *)
(* matching engine (HypersyncWorker.processTransactionMatch).              *)
(*                                                                         *)
(* Every await of the source is a point where other callbacks may run, so  *)
(* each async method is split into one action per awaited call.            *)
(***************************************************************************)
EXTENDS Integers, Sequences, FiniteSets, Bags, TLC

(***************************************************************************)
(* Bounds of the model                                                     *)
(***************************************************************************)
MaxEntries == 1
MaxCalls == 2
MaxRuns == 2
MaxOrders == 2
MaxCycles == 2
MaxBlock == 1
MaxTime == 1

(***************************************************************************)
(* Program constants                                                       *)
(***************************************************************************)
DefaultMaxRetries == 3
\* executor invocations are counted up to one past the retry ceiling
MaxExec == DefaultMaxRetries + 1
\* expiredAt = createdAt + 20 minutes; the clock of the model counts in units
\* of twenty minutes
ExpiryTicks == 1
\* lastScannedBlock starts at the chain height read by initializeChains
InitialHeight == 1
NoHash == 0

VARIABLES
    transferQueue,  \* the transfer_queue table: id -> row
    runs,           \* bag of activations: processQueuedTransferById runs,
                    \* pending setTimeout retries, retryTransfer calls in progress
    ret,            \* what the API call completed by the last step returned
    execCount,      \* id -> triggerSweep invocations since enqueue / manual retry
    failCount,      \* id -> failures handled since enqueue / manual retry
    transactions,   \* the transactions table: id -> row, ids in createdAt order
    now,            \* the wall clock
    blocks,         \* the chain: block number -> the transfer it contains
    watchedAddresses, \* HypersyncWorker.watchedAddresses of the chain: address -> tokens
    watchedOnBase,  \* HypersyncWorker.watchedAddresses of a second configured chain
    isRunning,      \* HypersyncWorker.isRunning (the interval timer is set)
    lastScannedBlock, \* chains.get(chain).lastScannedBlock
    cycles,         \* bag of scanChain activations
    creating,       \* bag of createTransaction calls between watch and insert
    expiry,         \* the activation of checkAndExpireTransactions
    confirmCalls,   \* order id -> processConfirmedEvmTransaction invocations
    advancedBy,     \* transfer hash -> orders advanced to crypto_confirmed by it
    boot            \* the start of the process: chains initialized, calls in flight

queueVars == <<transferQueue, runs, execCount, failCount>>
mainVars == <<transactions, now, blocks, watchedAddresses, watchedOnBase, isRunning,
              lastScannedBlock, cycles, creating, expiry, confirmCalls, advancedBy, boot>>
vars == <<transferQueue, runs, ret, execCount, failCount, transactions, now, blocks,
          watchedAddresses, watchedOnBase, isRunning, lastScannedBlock, cycles, creating,
          expiry, confirmCalls, advancedBy, boot>>

QueueIds == 1..MaxEntries
NoRet == [op |-> "none", id |-> 0, success |-> FALSE, error |-> "none"]

(***************************************************************************)
(* Sweep retry queue                                                       *)
(***************************************************************************)
\* rc: the retryCount read by handleTransferFailureById; marked: the activation
\* has set PROCESSING and not yet recorded an outcome; seen: the status read by
\* retryTransfer; delay: the seconds a setTimeout callback waits
Run(pc, id, rc, marked, trigger) ==
    [pc |-> pc, id |-> id, rc |-> rc, marked |-> marked, trigger |-> trigger,
     seen |-> "none", delay |-> 0]

\* activations, timers and half-done retry calls that are alive
Live == BagCardinality(runs)

Active == BagToSet(runs)

\* replace one activation by its next state
Step(r, next) == (runs (-) SetToBag({r})) (+) SetToBag({next})

Drop(r) == runs (-) SetToBag({r})

\* this.processQueuedTransferById(id) called without await: a new activation
StartRun(id, trigger) == Run("select", id, 0, FALSE, trigger)

\* pending setTimeout callbacks for an entry
timers(id) == BagCardinality([r \in {x \in Active : x.pc = "timer" /\ x.id = id} |-> runs[r]])

NoFee == 0

\* the row queueTransfer inserts for the order with this id
NewTransfer(transactionId) ==
    [transactionId |-> transactionId, status |-> "PENDING", retryCount |-> 0,
     maxRetries |-> DefaultMaxRetries, txHash |-> NoHash, transferFee |-> NoFee]

\* what triggerSweep reports for the sweep of an entry: the hash of the sweep
\* transaction (none of the hashes of the scanned blocks) and its fee
SweepHash(id) == MaxBlock + id
SweepFee == 1

\* the entries that the confirmations of the model may create: one more than
\* the entries whose processing is followed step by step
MaxJobs == MaxEntries + 1

\* the insert of queueTransfer and the un-awaited processQueuedTransferById,
\* while the table holds fewer than cap entries
queueInsertUpTo(cap, transactionId) ==
    /\ Len(transferQueue) < cap
    /\ Live < MaxRuns
    /\ transferQueue' = Append(transferQueue, NewTransfer(transactionId))
    /\ runs' = runs (+) SetToBag({StartRun(Len(transferQueue) + 1, "enqueue")})

queueInsert(transactionId) == queueInsertUpTo(MaxEntries, transactionId)

\* queueTransfer: insert the row, start processing in the background
queueTransfer(transactionId) ==
    /\ queueInsert(transactionId)
    /\ ret' = [op |-> "queueTransfer", id |-> Len(transferQueue) + 1,
               success |-> TRUE, error |-> "none"]
    /\ UNCHANGED <<execCount, failCount>>
    /\ UNCHANGED mainVars

\* the same write putting back the status fields of the order as created
sweepCompletedWholeRow(txs, transactionId, hash) ==
    IF transactionId \in 1..Len(txs)
    THEN [txs EXCEPT ![transactionId].sourceTransactionHash = hash,
                     ![transactionId].internalTransferStatus = "internal_supply_completed",
                     ![transactionId].status = "pending",
                     ![transactionId].cryptoStatus = "waiting_for_crypto",
                     ![transactionId].fiatStatus = "none"]
    ELSE txs

\* the order fields written by updateTransactionFieldsByTransactionId when
\* the sweep succeeded; an order that does not exist is not an error
sweepCompleted(txs, transactionId, hash) ==
    IF transactionId \in 1..Len(txs)
    THEN [txs EXCEPT ![transactionId].sourceTransactionHash = hash,
                     ![transactionId].internalTransferStatus = "internal_supply_completed"]
    ELSE txs

\* the order fields written when the entry has become FAILED
sweepFailed(txs, transactionId) ==
    IF transactionId \in 1..Len(txs)
    THEN [txs EXCEPT ![transactionId].internalTransferStatus = "internal_supply_failed"]
    ELSE txs

\* what the queue leaves alone on the order side
orderFrame == <<now, blocks, watchedAddresses, watchedOnBase, isRunning, lastScannedBlock,
                cycles, creating, expiry, confirmCalls, advancedBy, boot>>

\* processQueuedTransferById, the select of the row; a store error is caught
\* by the method's catch, which calls handleTransferFailureById
ProcSelect(r, ok) ==
    /\ r.pc = "select"
    /\ runs' = Step(r, [r EXCEPT !.pc = IF ok THEN "mark" ELSE "fail_select"])
    /\ ret' = NoRet
    /\ UNCHANGED <<transferQueue, execCount, failCount>>
    /\ UNCHANGED mainVars

\* the update to PROCESSING: where id = queueId, whatever the current status
markProcessing(q, id) == [q EXCEPT ![id].status = "PROCESSING"]

ProcMark(r, ok) ==
    /\ r.pc = "mark"
    /\ IF ok
       THEN /\ transferQueue' = markProcessing(transferQueue, r.id)
            /\ runs' = Step(r, [r EXCEPT !.pc = "sweep", !.marked = TRUE])
       ELSE /\ runs' = Step(r, [r EXCEPT !.pc = "fail_select"])
            /\ UNCHANGED transferQueue
    /\ ret' = NoRet
    /\ UNCHANGED <<execCount, failCount>>
    /\ UNCHANGED mainVars

\* WalletTransferService.triggerSweep: success, or a failure result / exception
ProcSweep(r, success) ==
    /\ r.pc = "sweep"
    /\ execCount[r.id] < MaxExec
    /\ execCount' = [execCount EXCEPT ![r.id] = @ + 1]
    /\ runs' = Step(r, [r EXCEPT !.pc = IF success THEN "complete" ELSE "fail_select"])
    /\ ret' = NoRet
    /\ UNCHANGED <<transferQueue, failCount>>
    /\ UNCHANGED mainVars

\* transfer succeeded: the update to COMPLETED
ProcComplete(r, ok) ==
    /\ r.pc = "complete"
    /\ IF ok
       THEN /\ transferQueue' = [transferQueue EXCEPT ![r.id].status = "COMPLETED",
                                                      ![r.id].txHash = SweepHash(r.id),
                                                      ![r.id].transferFee = SweepFee]
            /\ runs' = Step(r, [r EXCEPT !.pc = "txupdate", !.marked = FALSE])
       ELSE /\ runs' = Step(r, [r EXCEPT !.pc = "fail_select"])
            /\ UNCHANGED transferQueue
    /\ ret' = NoRet
    /\ UNCHANGED <<execCount, failCount>>
    /\ UNCHANGED mainVars

\* updateTransactionFieldsByTransactionId on the owning order; it is inside
\* the same try, so its exception also reaches handleTransferFailureById
ProcTxUpdate(r, ok) ==
    /\ r.pc = "txupdate"
    /\ runs' = IF ok THEN Drop(r) ELSE Step(r, [r EXCEPT !.pc = "fail_select"])
    /\ transactions' = IF ok THEN sweepCompleted(transactions,
                                                 transferQueue[r.id].transactionId,
                                                 SweepHash(r.id))
                      ELSE transactions
    /\ ret' = NoRet
    /\ UNCHANGED <<transferQueue, execCount, failCount>>
    /\ UNCHANGED orderFrame

\* handleTransferFailureById, the select of the current row; its own catch
\* swallows a store error and the activation ends
FailSelect(r, ok) ==
    /\ r.pc = "fail_select"
    /\ runs' = IF ok
               THEN Step(r, [r EXCEPT !.pc = "fail_update",
                                      !.rc = transferQueue[r.id].retryCount])
               ELSE Drop(r)
    /\ ret' = NoRet
    /\ UNCHANGED <<transferQueue, execCount, failCount>>
    /\ UNCHANGED mainVars

\* handleTransferFailureById, the branch on newRetryCount < maxRetries
handleTransferFailureUpdate(q, id, rc) ==
    LET newRetryCount == rc + 1
    IN IF newRetryCount < q[id].maxRetries
       THEN [q EXCEPT ![id].status = "PENDING", ![id].retryCount = newRetryCount]
       ELSE [q EXCEPT ![id].status = "FAILED"]

\* every retry after the delay of the first one
retryDelayFlat(newRetryCount) == 2 ^ 1

\* retryDelay = Math.pow(2, newRetryCount) * 1000 milliseconds, in seconds
retryDelay(newRetryCount) == 2 ^ newRetryCount

\* the setTimeout of handleTransferFailureById
retryTimer(id, newRetryCount) ==
    [Run("timer", id, 0, FALSE, "timer") EXCEPT !.delay = retryDelay(newRetryCount)]

FailUpdate(r, ok) ==
    /\ LET retry == r.rc + 1 < transferQueue[r.id].maxRetries
       IN /\ r.pc = "fail_update"
          /\ IF ok
             THEN /\ transferQueue' = handleTransferFailureUpdate(transferQueue, r.id, r.rc)
                  /\ failCount' = [failCount EXCEPT ![r.id] = IF @ < MaxExec THEN @ + 1 ELSE @]
                  /\ runs' = IF retry
                             THEN Step(r, retryTimer(r.id, r.rc + 1))
                             ELSE Step(r, [r EXCEPT !.pc = "fail_txupdate", !.marked = FALSE])
             ELSE /\ runs' = Drop(r)
                  /\ UNCHANGED <<transferQueue, failCount>>
          /\ ret' = NoRet
          /\ UNCHANGED execCount
    /\ UNCHANGED mainVars

\* max retries reached: the order is marked internal_supply_failed
FailTxUpdate(r, ok) ==
    /\ r.pc = "fail_txupdate"
    /\ runs' = Drop(r)
    /\ transactions' = IF ok THEN sweepFailed(transactions,
                                              transferQueue[r.id].transactionId)
                      ELSE transactions
    /\ ret' = NoRet
    /\ UNCHANGED <<transferQueue, execCount, failCount>>
    /\ UNCHANGED orderFrame

\* the setTimeout callback of handleTransferFailureById
TimerFire(r) ==
    /\ r.pc = "timer"
    /\ runs' = Step(r, StartRun(r.id, "timer"))
    /\ ret' = NoRet
    /\ UNCHANGED <<transferQueue, execCount, failCount>>
    /\ UNCHANGED mainVars

\* retryTransfer with the status test inverted to reject only COMPLETED entries
retryTransferCheckLoose(q, id) ==
    IF ~(id \in 1..Len(q)) THEN "Transfer not found"
    ELSE IF q[id].status = "COMPLETED" THEN "Transfer is not in failed state"
    ELSE "ok"

\* retryTransfer, the select and the two early returns
retryTransferCheck(q, id) ==
    IF ~(id \in 1..Len(q)) THEN "Transfer not found"
    ELSE IF q[id].status # "FAILED" THEN "Transfer is not in failed state"
    ELSE "ok"

RetryTransferSelect(id) ==
    /\ IF retryTransferCheck(transferQueue, id) = "ok"
       THEN /\ Live < MaxRuns
            /\ runs' = runs (+) SetToBag({[Run("retry", id, 0, FALSE, "manual")
                                           EXCEPT !.seen = transferQueue[id].status]})
            /\ ret' = NoRet
       ELSE /\ ret' = [op |-> "retryTransfer", id |-> id, success |-> FALSE,
                       error |-> retryTransferCheck(transferQueue, id)]
            /\ UNCHANGED runs
    /\ UNCHANGED <<transferQueue, execCount, failCount>>
    /\ UNCHANGED mainVars

\* retryTransfer, the reset and the background processing
RetryTransferReset(r, ok) ==
    /\ r.pc = "retry"
    /\ IF ok
       THEN /\ transferQueue' = [transferQueue EXCEPT ![r.id].status = "PENDING",
                                                      ![r.id].retryCount = 0]
            /\ runs' = Step(r, StartRun(r.id, "manual"))
            /\ execCount' = [execCount EXCEPT ![r.id] = 0]
            /\ failCount' = [failCount EXCEPT ![r.id] = 0]
            /\ ret' = [op |-> "retryTransfer", id |-> r.id, success |-> TRUE,
                       error |-> "none"]
       ELSE /\ runs' = Drop(r)
            /\ ret' = [op |-> "retryTransfer", id |-> r.id, success |-> FALSE,
                       error |-> "Retry failed"]
            /\ UNCHANGED <<transferQueue, execCount, failCount>>
    /\ UNCHANGED mainVars

(***************************************************************************)
(* Orders, watch registry, scanner and matching engine                     *)
(***************************************************************************)
Chain == "ethereum"
Addresses == {"0xa1"}
Currencies == {"ETH", "USDC"}
Amounts == {1}
Hashes == 1..MaxBlock
Orders == 1..Len(transactions)

\* a block holds one transfer to the watched address; its hash is the block number
Transfers == [kind : {"ETH", "Token"}, to : Addresses, amount : Amounts]

\* token-config: decimals of the chain's assets
Decimals(currency) == IF currency = "USDC" THEN 6 ELSE 18

\* the symbol whose contract emits the token transfers of the model
TokenOf(kind) == IF kind = "Token" THEN "USDC" ELSE "ETH"

\* amountReceived >= sourceAmountInWei, both in base units: received units of
\* an asset with dr decimals against required units of an asset with dq
\* decimals (all amounts of the model are far below 10^12 units)
AtLeast(received, dr, required, dq) ==
    IF dr = dq THEN received >= required
    ELSE IF dr > dq THEN received > 0
    ELSE required = 0

IsPendingStatus(tx) ==
    /\ tx.cryptoStatus = "waiting_for_crypto"
    /\ tx.status \in {"pending", "processing"}

\* the same lookup without the test of cryptoStatus
getPendingIgnoringCryptoStatus(txs, chain, address, t) ==
    SelectSeq([i \in 1..Len(txs) |-> i],
              LAMBDA i : /\ txs[i].sourceChain = chain
                         /\ txs[i].sourceAddress = address
                         /\ txs[i].status \in {"pending", "processing"}
                         /\ txs[i].expiredAt >= t)

\* getPendingTransactionsByChainAndAddress: ids of the rows, oldest first
getPendingTransactionsByChainAndAddress(txs, chain, address, t) ==
    SelectSeq([i \in 1..Len(txs) |-> i],
              LAMBDA i : /\ txs[i].sourceChain = chain
                         /\ txs[i].sourceAddress = address
                         /\ IsPendingStatus(txs[i])
                         /\ txs[i].expiredAt >= t)

\* the lookup of the sweep without the test of the status
findExpiredIgnoringStatus(txs, t) == {i \in 1..Len(txs) : txs[i].expiredAt <= t}

\* findExpiredTransactions
findExpiredTransactions(txs, t) ==
    {i \in 1..Len(txs) :
        /\ txs[i].status \in {"waiting_for_crypto", "waiting_for_fiat", "crypto_pending",
                              "fiat_pending", "pending"}
        /\ txs[i].expiredAt <= t}

\* the selection falling back to the newest pending order
matchedNewestFallback(pending, txs, tr) == pending[Len(pending)]

\* the loop of processTransactionMatch: the first pending order whose required
\* amount is covered, else the oldest one
RECURSIVE FirstCovered(_, _, _)
FirstCovered(pending, txs, tr) ==
    IF pending = <<>> THEN 0
    ELSE IF AtLeast(tr.amount, Decimals(TokenOf(tr.kind)),
                    txs[Head(pending)].sourceAmount,
                    Decimals(txs[Head(pending)].sourceCurrency))
         THEN Head(pending)
         ELSE FirstCovered(Tail(pending), txs, tr)

matchedTransaction(pending, txs, tr) ==
    IF FirstCovered(pending, txs, tr) # 0 THEN FirstCovered(pending, txs, tr)
    ELSE Head(pending)

\* the hash handed to updateCryptoStatus: tx.hash for a native transfer,
\* log.hash for a token log, a field the log query does not select
logHash(tr, hash) == IF tr.kind = "ETH" THEN hash ELSE NoHash

\* unique constraint on transactions.source_transaction_hash
UniqueViolation(txs, id, hash) ==
    /\ hash # NoHash
    /\ \E j \in 1..Len(txs) : j # id /\ txs[j].sourceTransactionHash = hash

\* updateCryptoStatus(id, crypto_confirmed, txHash): the overall status
\* follows the order's transactionType
updateCryptoStatus(txs, id, hash) ==
    [txs EXCEPT ![id].cryptoStatus = "crypto_confirmed",
                ![id].status = IF txs[id].transactionType = "crypto_to_fiat"
                               THEN "processing_payout"
                               ELSE IF txs[id].transactionType \in
                                         {"crypto_to_crypto", "supply_stable", "fiat_to_crypto"}
                               THEN "processing"
                               ELSE @,
                ![id].fiatStatus = IF txs[id].transactionType = "crypto_to_fiat"
                                   THEN "processing_payout" ELSE @,
                ![id].sourceTransactionHash = IF hash # NoHash THEN hash ELSE @]

\* --- watch registry ---
Watched == DOMAIN watchedAddresses

\* addAddress / addAddressForToken by the order's currency (startHypersyncMonitoring)
addWatch(w, address, currency) ==
    LET tokens == IF address \in DOMAIN w THEN w[address] ELSE {}
        added == IF currency # "ETH" THEN tokens \cup {currency} ELSE tokens
    IN [a \in DOMAIN w \cup {address} |-> IF a = address THEN added ELSE w[a]]

\* removeAddress: chainAddresses.delete
removeAddress(w, address) == [a \in DOMAIN w \ {address} |-> w[a]]

getAllTokensForChain(w) == UNION {w[a] : a \in DOMAIN w}

\* scanChain with fromBlock one past the cursor
newCycleSkipping(cursor, w) ==
    [pc |-> "query", fromBlock |-> cursor + 1, nextBlock |-> 0, addrs |-> DOMAIN w,
     tokens |-> getAllTokensForChain(w), events |-> <<>>, cur |-> 0,
     matched |-> 0, none |-> FALSE, again |-> "no", confirm |-> "none",
     queued |-> "none", balance |-> "none", via |-> "scan"]

\* scanChain up to the await of client.get(query): the query is built from the
\* current watch set and the current cursor
newCycle(cursor, w) ==
    [pc |-> "query", fromBlock |-> cursor, nextBlock |-> 0, addrs |-> DOMAIN w,
     tokens |-> getAllTokensForChain(w), events |-> <<>>, cur |-> 0,
     matched |-> 0, none |-> FALSE, again |-> "no", confirm |-> "none",
     queued |-> "none", balance |-> "none", via |-> "scan"]

ActiveCycles == BagToSet(cycles)

\* scanAllChains called by start() or by the interval
scanAllChains(cs, w) ==
    IF DOMAIN w = {} THEN cs ELSE cs (+) SetToBag({newCycle(lastScannedBlock, w)})

\* the transfers of blocks [from, next) that the query's filters select
QueryEvents(c, next) ==
    SelectSeq([i \in 1..MaxBlock |-> i],
              LAMBDA b : /\ b >= c.fromBlock /\ b < next
                         /\ blocks[b].to \in c.addrs
                         /\ (blocks[b].kind = "Token" => TokenOf("Token") \in c.tokens))

CycleStep(c, next) == (cycles (-) SetToBag({c})) (+) SetToBag({next})

CycleDrop(c) == cycles (-) SetToBag({c})

\* --- createTransaction ---
\* startHypersyncMonitoring succeeded: the watch is registered, checkAndStart
\* starts the scanner (isRunning, an immediate scanAllChains, the interval)
CreateBegin(address, currency, amount) ==
    /\ Len(transactions) + BagCardinality(creating) < MaxOrders
    /\ isRunning \/ BagCardinality(cycles) < MaxCycles
    /\ watchedAddresses' = addWatch(watchedAddresses, address, currency)
    /\ isRunning' = TRUE
    /\ cycles' = IF isRunning THEN cycles
                 ELSE scanAllChains(cycles, addWatch(watchedAddresses, address, currency))
    /\ creating' = creating (+) SetToBag({[chain |-> Chain, address |-> address,
                                           currency |-> currency, amount |-> amount]})
    /\ ret' = NoRet
    /\ UNCHANGED <<transactions, now, blocks, lastScannedBlock, expiry, confirmCalls,
                   advancedBy>>
    /\ UNCHANGED <<queueVars, watchedOnBase, boot>>

NewTransaction(cr) ==
    [sourceChain |-> cr.chain, sourceAddress |-> cr.address, sourceCurrency |-> cr.currency,
     sourceAmount |-> cr.amount, status |-> "pending", cryptoStatus |-> "waiting_for_crypto",
     sourceTransactionHash |-> NoHash, expiredAt |-> now + ExpiryTicks,
     transactionType |-> "crypto_to_crypto", destination |-> "address",
     fiatStatus |-> "none", internalTransferStatus |-> "none"]

\* the insert; when it (or the validation before it) throws, the catch calls
\* hypersyncWorker.removeAddress(sourceAddress, sourceChain), unless the order
\* is fiat-sourced
CreateInsert(cr, ok) ==
    /\ cr \in BagToSet(creating)
    /\ creating' = creating (-) SetToBag({cr})
    /\ IF ok
       THEN /\ transactions' = Append(transactions, NewTransaction(cr))
            /\ ret' = NoRet
            /\ UNCHANGED <<watchedAddresses, isRunning>>
       ELSE /\ watchedAddresses' = IF cr.chain = "fiat" THEN watchedAddresses
                                   ELSE removeAddress(watchedAddresses, cr.address)
            /\ isRunning' = IF cr.chain # "fiat"
                               /\ cr.address \in Watched /\ Watched \ {cr.address} = {}
                               /\ DOMAIN watchedOnBase = {}
                            THEN FALSE ELSE isRunning
            /\ ret' = NoRet
            /\ UNCHANGED transactions
    /\ UNCHANGED <<now, blocks, lastScannedBlock, cycles, expiry, confirmCalls, advancedBy>>
    /\ UNCHANGED <<queueVars, watchedOnBase, boot>>

\* --- scanner ---
\* the setInterval callback: scanAllChains
ScanTick ==
    /\ isRunning
    /\ BagCardinality(cycles) < MaxCycles
    /\ cycles' = scanAllChains(cycles, watchedAddresses)
    /\ isRunning' = (Watched # {} \/ DOMAIN watchedOnBase # {})
    /\ ret' = IF ret.op = "scanChain" /\ Watched # {}
              THEN [ret EXCEPT !.op = "scanAllChains"] ELSE NoRet
    /\ UNCHANGED <<transactions, now, blocks, watchedAddresses, lastScannedBlock, creating,
                   expiry, confirmCalls, advancedBy>>
    /\ UNCHANGED <<queueVars, watchedOnBase, boot>>

\* client.get(query) returns, or throws and the catch of scanChain logs; ret
\* remembers the failed cycle's fromBlock until the next step
QueryReturn(c, ok, next) ==
    /\ c.pc = "query"
    /\ next >= c.fromBlock
    /\ IF ok
       THEN /\ cycles' = CycleStep(c, [c EXCEPT !.pc = "process", !.nextBlock = next,
                                                !.events = QueryEvents(c, next)])
            /\ ret' = NoRet
       ELSE /\ cycles' = CycleDrop(c)
            /\ ret' = [op |-> "scanChain", id |-> c.fromBlock, success |-> FALSE,
                       error |-> "Error scanning chain"]
    /\ UNCHANGED <<transactions, now, blocks, watchedAddresses, isRunning,
                   lastScannedBlock, creating, expiry, confirmCalls, advancedBy>>
    /\ UNCHANGED <<queueVars, watchedOnBase, boot>>

\* what a cycle of scanChain that ran to its end leaves: the block it scanned to
Scanned(next) == [op |-> "scanned", id |-> next, success |-> TRUE, error |-> "none"]

\* a cycle that ends with the scanner when the scanner is stopped
cycleThroughWhileRunning(c) == isRunning /\ c.pc = "process" /\ c.events = <<>>

\* await processResults(res, chainName) has returned; stop() clears the
\* interval only, so the cycle goes on whether or not the scanner still runs
cycleThrough(c) == c.pc = "process" /\ c.events = <<>>

\* processResults is through: chainConfig.lastScannedBlock = res.nextBlock
Advance(c) ==
    /\ cycleThrough(c)
    /\ lastScannedBlock' = c.nextBlock
    /\ cycles' = CycleDrop(c)
    /\ ret' = Scanned(c.nextBlock)
    /\ UNCHANGED <<transactions, now, blocks, watchedAddresses, isRunning, creating,
                   expiry, confirmCalls, advancedBy>>
    /\ UNCHANGED <<queueVars, watchedOnBase, boot>>

\* --- processTransactionMatch ---
\* history of a delivery: whether the transfer had advanced an order before
\* this delivery, and whether the delivery selected such an order again
delivery(advanced, matched) ==
    IF advanced = {} THEN "no"
    ELSE IF matched \in advanced THEN "rematched"
    ELSE "redelivered"

\* the next transfer of the response: the pending lookup and the selection
MatchRead(c) ==
    /\ c.pc = "process" /\ c.events # <<>>
    /\ LET h == Head(c.events)
           pending == getPendingTransactionsByChainAndAddress(transactions, Chain,
                                                              blocks[h].to, now)
       IN cycles' = CycleStep(c,
             IF pending = <<>>
             THEN [c EXCEPT !.events = Tail(c.events),
                            !.again = delivery(advancedBy[h], 0)]
             ELSE [c EXCEPT !.pc = "update", !.events = Tail(c.events), !.cur = h,
                            !.matched = matchedTransaction(pending, transactions, blocks[h]),
                            !.again = delivery(advancedBy[h],
                                matchedTransaction(pending, transactions, blocks[h]))])
    /\ ret' = NoRet
    /\ UNCHANGED <<transactions, now, blocks, watchedAddresses, isRunning,
                   lastScannedBlock, creating, expiry, confirmCalls, advancedBy>>
    /\ UNCHANGED <<queueVars, watchedOnBase, boot>>

\* updateCryptoStatus(matched.id, CRYPTO_CONFIRMED, logHash); a store error
\* (the unique violation among them) is caught by the method's catch
MatchUpdate(c, ok) ==
    /\ c.pc = "update"
    /\ LET hash == logHash(blocks[c.cur], c.cur)
       IN IF ok /\ ~UniqueViolation(transactions, c.matched, hash)
          THEN /\ transactions' = updateCryptoStatus(transactions, c.matched, hash)
               /\ advancedBy' = [advancedBy EXCEPT ![c.cur] = @ \cup {c.matched}]
               /\ cycles' = CycleStep(c, [c EXCEPT !.pc = "confirm"])
          ELSE /\ cycles' = CycleStep(c, [c EXCEPT !.pc = "process", !.matched = 0,
                                                   !.cur = 0, !.again = "no"])
               /\ UNCHANGED <<transactions, advancedBy>>
    /\ ret' = NoRet
    /\ UNCHANGED <<now, blocks, watchedAddresses, isRunning, lastScannedBlock, creating,
                   expiry, confirmCalls>>
    /\ UNCHANGED <<queueVars, watchedOnBase, boot>>

\* what processConfirmedEvmTransaction writes to the order
confirmationUpdate(txs, id, outcome) ==
    IF outcome = "balance_verification_failed"
    THEN [txs EXCEPT ![id].cryptoStatus = "balance_verification_failed",
                     ![id].status = "failed"]
    ELSE IF outcome = "transfer_failed"
    THEN [txs EXCEPT ![id].cryptoStatus = "token_from_vault_transfer_failed",
                     ![id].status = "failed"]
    ELSE txs

ConfirmOutcomes == {"balance_verification_failed", "transfer_failed", "error"}

\* await processConfirmedEvmTransaction(matched.transactionId)
MatchConfirm(c, outcome) ==
    /\ c.pc = "confirm"
    /\ confirmCalls' = [confirmCalls EXCEPT ![c.matched] = @ + 1]
    /\ transactions' = confirmationUpdate(transactions, c.matched, outcome)
    /\ cycles' = CycleStep(c, [c EXCEPT !.pc = "remove_read"])
    /\ ret' = NoRet
    /\ UNCHANGED <<now, blocks, watchedAddresses, isRunning, lastScannedBlock, creating,
                   expiry, advancedBy>>
    /\ UNCHANGED <<queueVars, watchedOnBase, boot>>

\* --- processConfirmedEvmTransaction, one action per await ---
\* confirm: what the call returns ("none" while it runs); balance and queued:
\* the outcomes of its verifyTokenBalance and of its queueTransfer

\* where the call returns to: processTransactionMatch goes on to the removal,
\* the controller sends its response
returnTo(c) == IF c.via = "http" THEN "respond" ELSE "remove_read"

\* validateTransactionForConfirmation: the read of the order, which only has
\* to exist; an exception reaches the catch, which returns an error
ConfirmValidate(c, ok) ==
    /\ c.pc = "confirm"
    /\ confirmCalls' = [confirmCalls EXCEPT ![c.matched] = @ + 1]
    /\ cycles' = CycleStep(c,
          IF ~ok THEN [c EXCEPT !.pc = returnTo(c), !.confirm = "error"]
          ELSE IF c.matched \notin Orders
          THEN [c EXCEPT !.pc = returnTo(c), !.confirm = "not_found"]
          ELSE [c EXCEPT !.pc = "confirm_balance"])
    /\ ret' = NoRet
    /\ UNCHANGED <<transactions, now, blocks, watchedAddresses, isRunning,
                   lastScannedBlock, creating, expiry, advancedBy>>
    /\ UNCHANGED <<queueVars, watchedOnBase, boot>>

\* a failed verification treated like a passed one
balanceIgnored(success) == "confirm_enqueue"

\* if (!balanceVerification.success) the failure is recorded and the call
\* returns; otherwise the sweep is queued
afterBalance(success) == IF success THEN "confirm_enqueue" ELSE "confirm_balance_failed"

\* WalletTransferService.verifyTokenBalance; balance: its result
ConfirmBalance(c, success) ==
    /\ c.pc = "confirm_balance"
    /\ cycles' = CycleStep(c, [c EXCEPT !.pc = afterBalance(success),
                                        !.balance = IF success THEN "ok" ELSE "failed"])
    /\ ret' = NoRet
    /\ UNCHANGED <<transactions, now, blocks, watchedAddresses, isRunning,
                   lastScannedBlock, creating, expiry, confirmCalls, advancedBy>>
    /\ UNCHANGED <<queueVars, watchedOnBase, boot>>

\* handleBalanceVerificationFailure, then return { success: false }; when the
\* update throws the catch returns an error as well
ConfirmBalanceFailure(c, ok) ==
    /\ c.pc = "confirm_balance_failed"
    /\ transactions' = IF ok THEN confirmationUpdate(transactions, c.matched,
                                                     "balance_verification_failed")
                      ELSE transactions
    /\ cycles' = CycleStep(c, [c EXCEPT !.pc = returnTo(c),
                                        !.confirm = IF ok THEN "balance_verification_failed"
                                                    ELSE "error"])
    /\ ret' = NoRet
    /\ UNCHANGED <<now, blocks, watchedAddresses, isRunning, lastScannedBlock, creating,
                   expiry, confirmCalls, advancedBy>>
    /\ UNCHANGED <<queueVars, watchedOnBase, boot>>

\* a failed queueTransfer stopping the confirmation
enqueueBlocking(ok) == IF ok THEN "confirm_destination" ELSE "remove_read"

\* where processConfirmedEvmTransaction goes after queueTransfer has returned:
\* a failure is logged and the destination leg follows in either case
afterEnqueue(ok) == "confirm_destination"

\* SweeperQueueService.queueTransfer; its catch turns a store error into
\* { success: false }
ConfirmEnqueue(c, ok) ==
    /\ c.pc = "confirm_enqueue"
    /\ IF ok THEN queueInsertUpTo(MaxJobs, c.matched)
       ELSE UNCHANGED <<transferQueue, runs>>
    /\ cycles' = CycleStep(c, [c EXCEPT !.pc = afterEnqueue(ok),
                                        !.queued = IF ok THEN "ok" ELSE "failed"])
    /\ ret' = NoRet
    /\ UNCHANGED <<execCount, failCount>>
    /\ UNCHANGED <<transactions, now, blocks, watchedAddresses, watchedOnBase, isRunning,
                   lastScannedBlock, creating, expiry, confirmCalls, advancedBy, boot>>

\* the destination leg: no destination address on a non-fiat destination
\* returns an error; otherwise the switch on destinationChain has only its
\* default branch, the transfer fails and handleTransferFailure records it
ConfirmDestination(c, ok) ==
    /\ c.pc = "confirm_destination"
    /\ transactions' = IF transactions[c.matched].destination # "none" /\ ok
                       THEN confirmationUpdate(transactions, c.matched, "transfer_failed")
                       ELSE transactions
    /\ cycles' = CycleStep(c, [c EXCEPT !.pc = returnTo(c),
            !.confirm = IF transactions[c.matched].destination = "none"
                        THEN "destination_missing"
                        ELSE IF ok THEN "transfer_failed" ELSE "error"])
    /\ ret' = NoRet
    /\ UNCHANGED <<now, blocks, watchedAddresses, isRunning, lastScannedBlock, creating,
                   expiry, confirmCalls, advancedBy>>
    /\ UNCHANGED <<queueVars, watchedOnBase, boot>>

\* --- POST onConfirmedEvmTx ---
\* an activation of processConfirmedEvmTransaction started by the controller;
\* it is kept with the activations of the scanner, of its record only pc,
\* matched, confirm, queued, balance and via are used
httpCall(transactionId) ==
    [newCycle(lastScannedBlock, <<>>) EXCEPT !.pc = "confirm", !.matched = transactionId,
                                             !.via = "http"]

\* the request arrives with a transactionId; the handler calls the service
onConfirmedEvmTx(transactionId) ==
    /\ BagCardinality(cycles) < MaxCycles
    /\ confirmCalls[transactionId] < MaxCalls
    /\ cycles' = cycles (+) SetToBag({httpCall(transactionId)})
    /\ ret' = NoRet
    /\ UNCHANGED <<transactions, now, blocks, watchedAddresses, isRunning,
                   lastScannedBlock, creating, expiry, confirmCalls, advancedBy>>
    /\ UNCHANGED <<queueVars, watchedOnBase, boot>>

\* sendError(res, result.error, 500): the service never returns success
HttpRespond(c) ==
    /\ c.pc = "respond"
    /\ cycles' = CycleDrop(c)
    /\ ret' = [op |-> "onConfirmedEvmTx", id |-> c.matched, success |-> FALSE,
               error |-> c.confirm]
    /\ UNCHANGED <<transactions, now, blocks, watchedAddresses, isRunning,
                   lastScannedBlock, creating, expiry, confirmCalls, advancedBy>>
    /\ UNCHANGED <<queueVars, watchedOnBase, boot>>

\* removeAddressIfNoActiveTransactions, the lookup
MatchRemoveRead(c) ==
    /\ c.pc = "remove_read"
    /\ cycles' = CycleStep(c, [c EXCEPT !.pc = "remove",
            !.none = (getPendingTransactionsByChainAndAddress(
                          transactions, Chain, blocks[c.cur].to, now) = <<>>)])
    /\ ret' = NoRet
    /\ UNCHANGED <<transactions, now, blocks, watchedAddresses, isRunning,
                   lastScannedBlock, creating, expiry, confirmCalls, advancedBy>>
    /\ UNCHANGED <<queueVars, watchedOnBase, boot>>

\* what removeAddressIfNoActiveTransactions returns: removeAddress's `removed`
\* when the lookup was empty, false otherwise
removeResult(removed) ==
    [op |-> "removeAddressIfNoActiveTransactions", id |-> 0, success |-> removed,
     error |-> "none"]

\* the removal without the test of the lookup's result
RemoveAlways(none, address) ==
    /\ watchedAddresses' = removeAddress(watchedAddresses, address)
    /\ isRunning' = IF address \in Watched /\ Watched \ {address} = {}
                       /\ DOMAIN watchedOnBase = {}
                    THEN FALSE ELSE isRunning
    /\ ret' = removeResult(address \in Watched)

\* removeAddressIfNoActiveTransactions, the removal and checkAndStop
RemoveIfNone(none, address) ==
    /\ watchedAddresses' = IF none THEN removeAddress(watchedAddresses, address)
                           ELSE watchedAddresses
    /\ isRunning' = IF none /\ address \in Watched /\ Watched \ {address} = {}
                       /\ DOMAIN watchedOnBase = {}
                    THEN FALSE ELSE isRunning
    /\ ret' = removeResult(none /\ address \in Watched)

\* the activation of processTransactionMatch once the removal has returned
afterRemove(c) ==
    [c EXCEPT !.pc = "process", !.matched = 0, !.cur = 0, !.none = FALSE, !.again = "no",
              !.confirm = "none", !.queued = "none", !.balance = "none"]

MatchRemove(c) ==
    /\ c.pc = "remove"
    /\ RemoveIfNone(c.none, blocks[c.cur].to)
    /\ cycles' = CycleStep(c, afterRemove(c))
    /\ UNCHANGED <<transactions, now, blocks, lastScannedBlock, creating, expiry,
                   confirmCalls, advancedBy>>
    /\ UNCHANGED <<queueVars, watchedOnBase, boot>>

\* --- expiry worker ---
ExpiryIdle ==
    [pc |-> "idle", ids |-> {}, addrs |-> {}, cur |-> "none", none |-> FALSE, at |-> 0]

\* what expireOldTransactions returns; `at` is the time of the call's lookup
ExpireRet(count, addresses, at) ==
    [op |-> "expireOldTransactions", id |-> count, success |-> TRUE, error |-> "none",
     expiredAddresses |-> addresses, at |-> at]

\* expireOldTransactions, the lookup; with nothing found the call returns
\* { count: 0, expiredAddresses: [] } and the worker is through
ExpireFind ==
    /\ expiry.pc = "idle"
    /\ IF findExpiredTransactions(transactions, now) = {}
       THEN /\ ret' = ExpireRet(0, {}, now)
            /\ UNCHANGED expiry
       ELSE /\ expiry' = [expiry EXCEPT !.pc = "update", !.at = now,
                                        !.ids = findExpiredTransactions(transactions, now)]
            /\ ret' = NoRet
    /\ UNCHANGED <<transactions, now, blocks, watchedAddresses, isRunning,
                   lastScannedBlock, cycles, creating, confirmCalls, advancedBy>>
    /\ UNCHANGED <<queueVars, watchedOnBase, boot>>

\* expireOldTransactions, the bulk update of the rows found
expireRows(txs, ids, t) ==
    [i \in 1..Len(txs) |->
        IF i \in ids THEN [txs[i] EXCEPT !.status = "expired", !.cryptoStatus = "expired",
                                         !.fiatStatus = "expired", !.expiredAt = t]
        ELSE txs[i]]

\* expireOldTransactions: the addresses of the rows that have one
expiredAddresses(txs, ids) ==
    {txs[i].sourceAddress : i \in {j \in ids : txs[j].sourceAddress # "none"}}

ExpireUpdate ==
    /\ expiry.pc = "update"
    /\ transactions' = expireRows(transactions, expiry.ids, now)
    /\ expiry' = IF expiredAddresses(transactions, expiry.ids) = {} THEN ExpiryIdle
                 ELSE [expiry EXCEPT !.pc = "remove_read",
                                     !.addrs = expiredAddresses(transactions, expiry.ids)]
    /\ ret' = ExpireRet(Cardinality(expiry.ids),
                        expiredAddresses(transactions, expiry.ids), expiry.at)
    /\ UNCHANGED <<now, blocks, watchedAddresses, isRunning, lastScannedBlock, cycles,
                   creating, confirmCalls, advancedBy>>
    /\ UNCHANGED <<queueVars, watchedOnBase, boot>>

\* checkAndExpireTransactions: removeAddressIfNoActiveTransactions per address
ExpireRemoveRead(address) ==
    /\ expiry.pc = "remove_read"
    /\ address \in expiry.addrs
    /\ expiry' = [expiry EXCEPT !.pc = "remove", !.cur = address,
            !.none = (getPendingTransactionsByChainAndAddress(
                          transactions, Chain, address, now) = <<>>)]
    /\ ret' = NoRet
    /\ UNCHANGED <<transactions, now, blocks, watchedAddresses, isRunning,
                   lastScannedBlock, cycles, creating, confirmCalls, advancedBy>>
    /\ UNCHANGED <<queueVars, watchedOnBase, boot>>

ExpireRemove ==
    /\ expiry.pc = "remove"
    /\ RemoveIfNone(expiry.none, expiry.cur)
    /\ expiry' = IF expiry.addrs \ {expiry.cur} = {} THEN ExpiryIdle
                 ELSE [expiry EXCEPT !.pc = "remove_read", !.addrs = @ \ {expiry.cur},
                                     !.cur = "none", !.none = FALSE]
    /\ UNCHANGED <<transactions, now, blocks, lastScannedBlock, cycles, creating,
                   confirmCalls, advancedBy>>
    /\ UNCHANGED <<queueVars, watchedOnBase, boot>>

(***************************************************************************)
(* Registry API and createTransaction on arbitrary input                   *)
(***************************************************************************)
\* an address string as the caller passes it, a sequence of characters; the
\* empty string stands for a missing address
HexLen == 40
CanonicalBody == [i \in 1..HexLen |-> "a"]
UpperBody == [i \in 1..HexLen |-> "A"]
ShortBody == [i \in 1..(HexLen - 1) |-> "a"]
NonHexBody == [i \in 1..HexLen |-> IF i = HexLen THEN "g" ELSE "a"]
NoAddress == <<>>
RawAddresses ==
    {<<"0", "x">> \o CanonicalBody, UpperBody, <<"0", "X">> \o UpperBody,
     <<"0", "x">> \o ShortBody, NonHexBody, NoAddress}

\* String.prototype.toLowerCase on the characters in use
toLowerCase(s) ==
    [i \in 1..Len(s) |-> IF s[i] = "A" THEN "a" ELSE IF s[i] = "X" THEN "x" ELSE s[i]]

\* cleanAddress.startsWith("0x") ? cleanAddress.slice(2) : cleanAddress
stripPrefix(s) ==
    IF Len(s) >= 2 /\ s[1] = "0" /\ s[2] = "x" THEN SubSeq(s, 3, Len(s)) ELSE s

\* /^[0-9a-f]{40}$/ on the characters in use
IsHexString(s) == Len(s) = HexLen /\ \A i \in 1..Len(s) : s[i] \in {"0", "a"}

\* the name the model gives the normalized address "0x" + cleanAddress
AddressOf(clean) == IF clean = CanonicalBody THEN "0xa1" ELSE "0xb2"

\* the normalization without the test of the 40 hex characters
normalizeUnchecked(raw) ==
    IF raw = NoAddress THEN "null" ELSE AddressOf(stripPrefix(toLowerCase(raw)))

\* validateAndNormalizeAddress: "null", or the normalized address
validateAndNormalizeAddress(raw) ==
    IF raw = NoAddress THEN "null"
    ELSE IF IsHexString(stripPrefix(toLowerCase(raw)))
    THEN AddressOf(stripPrefix(toLowerCase(raw)))
    ELSE "null"

\* validateAndNormalizeAddress of each address string of the model
normalizedAddress == [raw \in RawAddresses |-> validateAndNormalizeAddress(raw)]

SecondChain == "base"
SupportedChains == {Chain, SecondChain}
NoChain == ""
ApiChains == {Chain, SecondChain, "solana"}
OrderChains == {Chain, "fiat", "solana", NoChain}
TokenSymbols == {"USDC", "DOGE"}

\* TokenConfigUtils.getTokenAddress(chain, symbol) is not null
TokenConfigured(chain, symbol) ==
    \/ chain = Chain /\ symbol \in {"USDC", "WETH"}
    \/ chain = SecondChain /\ symbol \in {"USDC", "ETH"}

\* watchedAddresses.get(chain)
chainAddresses(chain) == IF chain = Chain THEN watchedAddresses ELSE watchedOnBase

\* true exactly when addAddress(raw, chain) goes through its checks
addAddressAccepts(raw, chain) ==
    chain \in SupportedChains /\ normalizedAddress[raw] # "null"

\* true exactly when addAddressForToken(raw, chain, symbol) goes through its checks
addAddressForTokenAccepts(raw, chain, symbol) ==
    /\ chain \in SupportedChains
    /\ TokenConfigured(chain, symbol)
    /\ normalizedAddress[raw] # "null"

\* the registry of the chain replaced by w; checkAndStart starts the scanner
\* (isRunning, an immediate scanAllChains) when it was idle
Registered(chain, w) ==
    /\ isRunning \/ BagCardinality(cycles) < MaxCycles
    /\ watchedAddresses' = IF chain = Chain THEN w ELSE watchedAddresses
    /\ watchedOnBase' = IF chain = Chain THEN watchedOnBase ELSE w
    /\ isRunning' = TRUE
    /\ cycles' = IF isRunning THEN cycles
                 ELSE scanAllChains(cycles, IF chain = Chain THEN w ELSE watchedAddresses)

ApiRet(op, success) == [op |-> op, id |-> 0, success |-> success, error |-> "none"]

\* hypersyncWorker.addAddress(raw, chain)
AddAddressCall(raw, chain) ==
    /\ IF addAddressAccepts(raw, chain)
       THEN Registered(chain, addWatch(chainAddresses(chain),
                                       normalizedAddress[raw], "ETH"))
       ELSE UNCHANGED <<watchedAddresses, watchedOnBase, isRunning, cycles>>
    /\ ret' = ApiRet("addAddress", addAddressAccepts(raw, chain))
    /\ UNCHANGED <<transactions, now, blocks, lastScannedBlock, creating, expiry,
                   confirmCalls, advancedBy>>
    /\ UNCHANGED <<queueVars, boot>>

\* hypersyncWorker.addAddressForToken(raw, chain, symbol)
AddAddressForTokenCall(raw, chain, symbol) ==
    /\ IF addAddressForTokenAccepts(raw, chain, symbol)
       THEN Registered(chain, addWatch(chainAddresses(chain),
                                       normalizedAddress[raw], symbol))
       ELSE UNCHANGED <<watchedAddresses, watchedOnBase, isRunning, cycles>>
    /\ ret' = ApiRet("addAddressForToken", addAddressForTokenAccepts(raw, chain, symbol))
    /\ UNCHANGED <<transactions, now, blocks, lastScannedBlock, creating, expiry,
                   confirmCalls, advancedBy>>
    /\ UNCHANGED <<queueVars, boot>>

\* true exactly when removeAddress(raw, chain) deletes an entry
removeAddressRemoves(raw, chain) ==
    /\ chain \in SupportedChains
    /\ normalizedAddress[raw] # "null"
    /\ normalizedAddress[raw] \in DOMAIN chainAddresses(chain)

\* checkAndStop never stopping the scanner
neverStop(w, wb) == isRunning

\* checkAndStop: stop when no address is left on any chain
checkAndStop(w, wb) == IF DOMAIN w = {} /\ DOMAIN wb = {} THEN FALSE ELSE isRunning

\* hypersyncWorker.removeAddress(raw, chain)
RemoveAddressCall(raw, chain) ==
    /\ IF removeAddressRemoves(raw, chain)
       THEN LET w == removeAddress(chainAddresses(chain), normalizedAddress[raw])
            IN /\ watchedAddresses' = IF chain = Chain THEN w ELSE watchedAddresses
               /\ watchedOnBase' = IF chain = Chain THEN watchedOnBase ELSE w
               /\ isRunning' = checkAndStop(IF chain = Chain THEN w ELSE watchedAddresses,
                                            IF chain = Chain THEN watchedOnBase ELSE w)
       ELSE UNCHANGED <<watchedAddresses, watchedOnBase, isRunning>>
    /\ ret' = ApiRet("removeAddress", removeAddressRemoves(raw, chain))
    /\ UNCHANGED <<transactions, now, blocks, lastScannedBlock, cycles, creating, expiry,
                   confirmCalls, advancedBy>>
    /\ UNCHANGED <<queueVars, boot>>

\* hypersyncWorker.clearAllAddresses()
ClearAllAddresses ==
    /\ watchedAddresses' = <<>>
    /\ watchedOnBase' = <<>>
    /\ isRunning' = FALSE
    /\ ret' = ApiRet("clearAllAddresses", TRUE)
    /\ UNCHANGED <<transactions, now, blocks, lastScannedBlock, cycles, creating, expiry,
                   confirmCalls, advancedBy>>
    /\ UNCHANGED <<queueVars, boot>>

\* startHypersyncMonitoring always reporting success
monitoringAlwaysStarted(chain, raw, currency) == TRUE

\* startHypersyncMonitoring(transaction): what it returns for a crypto source
startHypersyncMonitoring(chain, raw, currency) ==
    IF raw = NoAddress THEN FALSE
    ELSE IF currency # "ETH" THEN addAddressForTokenAccepts(raw, chain, currency)
    ELSE addAddressAccepts(raw, chain)

CreateError(text) == [op |-> "createTransaction", id |-> 0, success |-> FALSE, error |-> text]

\* createTransaction(transactionData) up to the insert: the checks and the
\* watch registration; the record remembers the input and the registry the
\* call found
CreateCall(chain, raw, currency, amount) ==
    /\ IF chain = NoChain
       THEN /\ ret' = CreateError("Source chain is required")
            /\ UNCHANGED <<watchedAddresses, isRunning, cycles, creating>>
       ELSE IF chain # "fiat" /\ ~startHypersyncMonitoring(chain, raw, currency)
       THEN /\ ret' = CreateError("Failed to start payment monitoring")
            /\ UNCHANGED <<watchedAddresses, isRunning, cycles, creating>>
       ELSE /\ Len(transactions) + BagCardinality(creating) < MaxOrders
            /\ IF chain = "fiat"
               THEN UNCHANGED <<watchedAddresses, isRunning, cycles>>
               ELSE /\ isRunning \/ BagCardinality(cycles) < MaxCycles
                    /\ watchedAddresses' =
                          addWatch(watchedAddresses, normalizedAddress[raw], currency)
                    /\ isRunning' = TRUE
                    /\ cycles' = IF isRunning THEN cycles
                                 ELSE scanAllChains(cycles,
                                        addWatch(watchedAddresses,
                                                 normalizedAddress[raw], currency))
            /\ creating' = creating (+) SetToBag({
                  [chain |-> chain,
                   address |-> IF chain = "fiat" THEN "none"
                               ELSE normalizedAddress[raw],
                   currency |-> currency, amount |-> amount,
                   before |-> watchedAddresses]})
            /\ ret' = NoRet
    /\ UNCHANGED <<transactions, now, blocks, lastScannedBlock, expiry, confirmCalls,
                   advancedBy>>
    /\ UNCHANGED <<queueVars, watchedOnBase, boot>>

\* client.get(query) of a cycle returns no new block, or throws
ScanIdle(c, ok) == QueryReturn(c, ok, c.fromBlock)

\* time passes
Tick ==
    /\ now < MaxTime
    /\ now' = now + 1
    /\ ret' = NoRet
    /\ UNCHANGED <<transactions, blocks, watchedAddresses, isRunning, lastScannedBlock,
                   cycles, creating, expiry, confirmCalls, advancedBy>>
    /\ UNCHANGED <<queueVars, watchedOnBase, boot>>

\* the process once its start is over: the chains are initialized and no call
\* of the start is in flight
Booted == [initialized |-> TRUE, loaded |-> TRUE, failed |-> FALSE, calls |-> EmptyBag]

MainIdle ==
    /\ transactions = <<>>
    /\ now = 0
    /\ blocks = [b \in 1..MaxBlock |-> [kind |-> "ETH", to |-> "0xa1", amount |-> 1]]
    /\ watchedAddresses = <<>>
    /\ watchedOnBase = <<>>
    /\ isRunning = FALSE
    /\ lastScannedBlock = InitialHeight
    /\ cycles = EmptyBag
    /\ creating = EmptyBag
    /\ expiry = ExpiryIdle
    /\ confirmCalls = [o \in 1..MaxOrders |-> 0]
    /\ advancedBy = [h \in Hashes |-> {}]
    /\ boot = Booted

QueueEmpty ==
    /\ transferQueue = <<>>
    /\ runs = EmptyBag
    /\ execCount = [id \in QueueIds |-> 0]
    /\ failCount = [id \in QueueIds |-> 0]

QueueInit ==
    /\ QueueEmpty
    /\ ret = NoRet
    /\ MainIdle

\* the order ids queueTransfer is called with when it is called on its own
QueueOrders == {1}

QueueNext ==
    \/ \E t \in QueueOrders : queueTransfer(t)
    \/ \E r \in Active, ok \in BOOLEAN : ProcSelect(r, ok)
    \/ \E r \in Active, ok \in BOOLEAN : ProcMark(r, ok)
    \/ \E r \in Active, success \in BOOLEAN : ProcSweep(r, success)
    \/ \E r \in Active, ok \in BOOLEAN : ProcComplete(r, ok)
    \/ \E r \in Active, ok \in BOOLEAN : ProcTxUpdate(r, ok)
    \/ \E r \in Active, ok \in BOOLEAN : FailSelect(r, ok)
    \/ \E r \in Active, ok \in BOOLEAN : FailUpdate(r, ok)
    \/ \E r \in Active, ok \in BOOLEAN : FailTxUpdate(r, ok)
    \/ \E r \in Active : TimerFire(r)
    \/ \E id \in 1..(MaxEntries + 1) : RetryTransferSelect(id)
    \/ \E r \in Active, ok \in BOOLEAN : RetryTransferReset(r, ok)

QueueSpec == QueueInit /\ [][QueueNext]_vars

(***************************************************************************)
(* The order / registry / scanner specification                            *)
(***************************************************************************)
Init ==
    /\ QueueEmpty
    /\ ret = NoRet
    /\ transactions = <<>>
    /\ now = 0
    /\ blocks \in [1..MaxBlock -> Transfers]
    /\ watchedAddresses = <<>>
    /\ watchedOnBase = <<>>
    /\ isRunning = FALSE
    /\ lastScannedBlock = InitialHeight
    /\ cycles = EmptyBag
    /\ creating = EmptyBag
    /\ expiry = ExpiryIdle
    /\ confirmCalls = [o \in 1..MaxOrders |-> 0]
    /\ advancedBy = [h \in Hashes |-> {}]
    /\ boot = Booted

Next ==
    \/ \E a \in Addresses, cur \in Currencies, amt \in Amounts : CreateBegin(a, cur, amt)
    \/ \E cr \in BagToSet(creating), ok \in BOOLEAN : CreateInsert(cr, ok)
    \/ ScanTick
    \/ \E c \in ActiveCycles, ok \in BOOLEAN, next \in 1..(MaxBlock + 1) : QueryReturn(c, ok, next)
    \/ \E c \in ActiveCycles : Advance(c)
    \/ \E c \in ActiveCycles : MatchRead(c)
    \/ \E c \in ActiveCycles, ok \in BOOLEAN : MatchUpdate(c, ok)
    \/ \E c \in ActiveCycles, outcome \in ConfirmOutcomes : MatchConfirm(c, outcome)
    \/ \E c \in ActiveCycles : MatchRemoveRead(c)
    \/ \E c \in ActiveCycles : MatchRemove(c)
    \/ ExpireFind
    \/ ExpireUpdate
    \/ \E a \in Addresses : ExpireRemoveRead(a)
    \/ ExpireRemove
    \/ Tick

Spec == Init /\ [][Next]_vars

(***************************************************************************)
(* The registry specification: the registry API on arbitrary input, orders *)
(* and the expiry worker, while the chain has no new block                 *)
(***************************************************************************)
RegistryInit ==
    /\ QueueEmpty
    /\ ret = NoRet
    /\ MainIdle

RegistryNext ==
    \/ \E a \in Addresses, cur \in Currencies, amt \in Amounts : CreateBegin(a, cur, amt)
    \/ \E cr \in BagToSet(creating), ok \in BOOLEAN : CreateInsert(cr, ok)
    \/ \E raw \in RawAddresses, chain \in ApiChains : AddAddressCall(raw, chain)
    \/ \E raw \in RawAddresses, chain \in ApiChains, symbol \in TokenSymbols :
          AddAddressForTokenCall(raw, chain, symbol)
    \/ \E raw \in RawAddresses, chain \in ApiChains : RemoveAddressCall(raw, chain)
    \/ ClearAllAddresses
    \/ ScanTick
    \/ \E c \in ActiveCycles, ok \in BOOLEAN : ScanIdle(c, ok)
    \/ \E c \in ActiveCycles : Advance(c)
    \/ ExpireFind
    \/ ExpireUpdate
    \/ \E a \in Addresses : ExpireRemoveRead(a)
    \/ ExpireRemove
    \/ Tick

RegistrySpec == RegistryInit /\ [][RegistryNext]_vars

(***************************************************************************)
(* The registry API specification: addAddress, addAddressForToken,         *)
(* removeAddress and clearAllAddresses on arbitrary input                  *)
(***************************************************************************)
ApiInit ==
    /\ QueueEmpty
    /\ ret = NoRet
    /\ MainIdle

ApiNext ==
    \/ \E raw \in RawAddresses, chain \in ApiChains : AddAddressCall(raw, chain)
    \/ \E raw \in RawAddresses, chain \in ApiChains, symbol \in TokenSymbols :
          AddAddressForTokenCall(raw, chain, symbol)
    \/ \E raw \in RawAddresses, chain \in ApiChains : RemoveAddressCall(raw, chain)
    \/ ClearAllAddresses
    \/ ScanTick
    \/ \E c \in ActiveCycles, ok \in BOOLEAN : ScanIdle(c, ok)
    \/ \E c \in ActiveCycles : Advance(c)

ApiSpec == ApiInit /\ [][ApiNext]_vars

(***************************************************************************)
(* The creation specification: createTransaction on arbitrary input, while *)
(* the chain has no new block                                              *)
(***************************************************************************)
CreateInit ==
    /\ QueueEmpty
    /\ ret = NoRet
    /\ MainIdle

CreateNext ==
    \/ \E chain \in OrderChains, raw \in RawAddresses,
          cur \in Currencies \cup {"DOGE"}, amt \in Amounts : CreateCall(chain, raw, cur, amt)
    \/ \E cr \in BagToSet(creating), ok \in BOOLEAN : CreateInsert(cr, ok)
    \/ \E c \in ActiveCycles, ok \in BOOLEAN : ScanIdle(c, ok)
    \/ \E c \in ActiveCycles : Advance(c)

CreateSpec == CreateInit /\ [][CreateNext]_vars

(***************************************************************************)
(* The matching specification: processTransactionMatch on every small set  *)
(* of orders on the address and every transfer to it                       *)
(***************************************************************************)
\* amounts in halves of a unit of the asset: 0.5, 1.0 and 2.0
MatchAmounts == {1, 2, 4}

\* an order created at time 0 on the address, still pending or expired by hand
MatchRow(currency, amount, live) ==
    [sourceChain |-> Chain, sourceAddress |-> "0xa1", sourceCurrency |-> currency,
     sourceAmount |-> amount, status |-> IF live THEN "pending" ELSE "expired",
     cryptoStatus |-> IF live THEN "waiting_for_crypto" ELSE "expired",
     sourceTransactionHash |-> NoHash, expiredAt |-> ExpiryTicks,
     transactionType |-> "crypto_to_crypto", destination |-> "address",
     fiatStatus |-> "none", internalTransferStatus |-> "none"]

MatchRows == {MatchRow(cur, amt, live) : cur \in Currencies, amt \in MatchAmounts,
                                         live \in BOOLEAN}

\* the registry entry of the address
MatchWatch == [a \in Addresses |-> {"USDC"}]

\* the orders are in createdAt order; the address is watched, the scanner
\* runs and one cycle's query has returned the transfers of the blocks
MatchInit ==
    /\ QueueEmpty
    /\ ret = NoRet
    /\ transactions \in UNION {[1..n -> MatchRows] : n \in 0..MaxOrders}
    /\ now = ExpiryTicks
    /\ blocks \in [1..MaxBlock -> [kind : {"ETH", "Token"}, to : Addresses,
                                   amount : MatchAmounts]]
    /\ watchedAddresses = MatchWatch
    /\ watchedOnBase = <<>>
    /\ isRunning = TRUE
    /\ lastScannedBlock = InitialHeight
    /\ cycles = SetToBag({[newCycle(InitialHeight, MatchWatch) EXCEPT
                              !.pc = "process", !.nextBlock = MaxBlock + 1,
                              !.events = [i \in 1..MaxBlock |-> i]]})
    /\ creating = EmptyBag
    /\ expiry = ExpiryIdle
    /\ confirmCalls = [o \in 1..MaxOrders |-> 0]
    /\ advancedBy = [h \in Hashes |-> {}]
    /\ boot = Booted

MatchNext ==
    \/ \E c \in ActiveCycles : MatchRead(c)
    \/ \E c \in ActiveCycles, ok \in BOOLEAN : MatchUpdate(c, ok)
    \/ \E c \in ActiveCycles, outcome \in ConfirmOutcomes : MatchConfirm(c, outcome)
    \/ \E c \in ActiveCycles : MatchRemoveRead(c)
    \/ \E c \in ActiveCycles : MatchRemove(c)
    \/ \E c \in ActiveCycles : Advance(c)

MatchSpec == MatchInit /\ [][MatchNext]_vars

(***************************************************************************)
(* The settlement specification: a transfer to a watched address with      *)
(* orders on it is matched, confirmed step by step and swept by the queue  *)
(***************************************************************************)
\* an order created at time 0 on the address, waiting for its transfer
SettleRow(type, destination) ==
    [MatchRow("ETH", 2, TRUE) EXCEPT !.transactionType = type, !.destination = destination]

SettleRows == {SettleRow("crypto_to_crypto", "address"), SettleRow("crypto_to_crypto", "none"),
               SettleRow("crypto_to_fiat", "fiat")}

SettleInit ==
    /\ QueueEmpty
    /\ ret = NoRet
    /\ transactions \in UNION {[1..n -> SettleRows] : n \in 1..MaxOrders}
    /\ now = ExpiryTicks
    /\ blocks \in [1..MaxBlock -> [kind : {"ETH", "Token"}, to : Addresses, amount : {2}]]
    /\ watchedAddresses = MatchWatch
    /\ watchedOnBase = <<>>
    /\ isRunning = TRUE
    /\ lastScannedBlock = InitialHeight
    /\ cycles = SetToBag({[newCycle(InitialHeight, MatchWatch) EXCEPT
                              !.pc = "process", !.nextBlock = MaxBlock + 1,
                              !.events = [i \in 1..MaxBlock |-> i]]})
    /\ creating = EmptyBag
    /\ expiry = ExpiryIdle
    /\ confirmCalls = [o \in 1..MaxOrders |-> 0]
    /\ advancedBy = [h \in Hashes |-> {}]
    /\ boot = Booted

SettleNext ==
    \/ \E c \in ActiveCycles : MatchRead(c)
    \/ \E c \in ActiveCycles, ok \in BOOLEAN : MatchUpdate(c, ok)
    \/ \E c \in ActiveCycles, ok \in BOOLEAN : ConfirmValidate(c, ok)
    \/ \E c \in ActiveCycles, success \in BOOLEAN : ConfirmBalance(c, success)
    \/ \E c \in ActiveCycles, ok \in BOOLEAN : ConfirmBalanceFailure(c, ok)
    \/ \E c \in ActiveCycles, ok \in BOOLEAN : ConfirmEnqueue(c, ok)
    \/ \E c \in ActiveCycles, ok \in BOOLEAN : ConfirmDestination(c, ok)
    \/ \E c \in ActiveCycles : MatchRemoveRead(c)
    \/ \E c \in ActiveCycles : MatchRemove(c)
    \/ \E c \in ActiveCycles : Advance(c)
    \/ \E r \in Active, ok \in BOOLEAN : ProcSelect(r, ok)
    \/ \E r \in Active, ok \in BOOLEAN : ProcMark(r, ok)
    \/ \E r \in Active, success \in BOOLEAN : ProcSweep(r, success)
    \/ \E r \in Active, ok \in BOOLEAN : ProcComplete(r, ok)
    \/ \E r \in Active, ok \in BOOLEAN : ProcTxUpdate(r, ok)
    \/ \E r \in Active, ok \in BOOLEAN : FailSelect(r, ok)
    \/ \E r \in Active, ok \in BOOLEAN : FailUpdate(r, ok)
    \/ \E r \in Active, ok \in BOOLEAN : FailTxUpdate(r, ok)
    \/ \E r \in Active : TimerFire(r)

SettleSpec == SettleInit /\ [][SettleNext]_vars

(***************************************************************************)
(* The confirmation endpoint: requests for orders in any state, each       *)
(* running processConfirmedEvmTransaction; the entries they create are     *)
(* left waiting                                                            *)
(***************************************************************************)
\* an order on the address in one of the states of its life
ConfirmRow(status, cryptoStatus, hash) ==
    [MatchRow("ETH", 2, TRUE) EXCEPT !.status = status, !.cryptoStatus = cryptoStatus,
                                     !.sourceTransactionHash = hash]

ConfirmRows ==
    {ConfirmRow("pending", "waiting_for_crypto", NoHash),
     ConfirmRow("processing", "crypto_confirmed", 1),
     ConfirmRow("completed", "crypto_confirmed", 1),
     ConfirmRow("failed", "balance_verification_failed", 1),
     ConfirmRow("expired", "expired", NoHash)}

\* the sourceTransactionHash column is unique
ConfirmTables ==
    {t \in UNION {[1..n -> ConfirmRows] : n \in 0..MaxOrders} :
        \A i, j \in DOMAIN t :
            i # j /\ t[i].sourceTransactionHash # NoHash
               => t[i].sourceTransactionHash # t[j].sourceTransactionHash}

ConfirmInit ==
    /\ QueueEmpty
    /\ ret = NoRet
    /\ transactions \in ConfirmTables
    /\ now = 0
    /\ blocks \in [1..MaxBlock -> Transfers]
    /\ watchedAddresses = MatchWatch
    /\ watchedOnBase = <<>>
    /\ isRunning = TRUE
    /\ lastScannedBlock = InitialHeight
    /\ cycles = EmptyBag
    /\ creating = EmptyBag
    /\ expiry = ExpiryIdle
    /\ confirmCalls = [o \in 1..MaxOrders |-> 0]
    /\ advancedBy = [h \in Hashes |-> {}]
    /\ boot = Booted

ConfirmNext ==
    \/ \E id \in 1..MaxOrders : onConfirmedEvmTx(id)
    \/ \E c \in ActiveCycles, ok \in BOOLEAN : ConfirmValidate(c, ok)
    \/ \E c \in ActiveCycles, success \in BOOLEAN : ConfirmBalance(c, success)
    \/ \E c \in ActiveCycles, ok \in BOOLEAN : ConfirmBalanceFailure(c, ok)
    \/ \E c \in ActiveCycles, ok \in BOOLEAN : ConfirmEnqueue(c, ok)
    \/ \E c \in ActiveCycles, ok \in BOOLEAN : ConfirmDestination(c, ok)
    \/ \E c \in ActiveCycles : HttpRespond(c)

ConfirmSpec == ConfirmInit /\ [][ConfirmNext]_vars

(***************************************************************************)
(* The expiry specification: orders on a watched address pass their expiry *)
(* time while the expiry worker ticks and the scanner scans; store errors  *)
(* are transient                                                           *)
(***************************************************************************)
\* a store call of the expiry worker may throw, but not for ever: none does
\* after the last tick of the clock
TransientError == now < MaxTime

\* expireOldTransactions: the bulk update throws; the catch of
\* checkAndExpireTransactions logs and the tick is over
ExpireUpdateError ==
    /\ expiry.pc = "update"
    /\ TransientError
    /\ expiry' = ExpiryIdle
    /\ ret' = NoRet
    /\ UNCHANGED <<transactions, now, blocks, watchedAddresses, isRunning,
                   lastScannedBlock, cycles, creating, confirmCalls, advancedBy>>
    /\ UNCHANGED <<queueVars, watchedOnBase, boot>>

\* removeAddressIfNoActiveTransactions: the lookup throws, its catch returns
\* false and the worker goes on to the next address
ExpireRemoveError(address) ==
    /\ expiry.pc = "remove_read"
    /\ address \in expiry.addrs
    /\ TransientError
    /\ expiry' = IF expiry.addrs \ {address} = {} THEN ExpiryIdle
                 ELSE [expiry EXCEPT !.addrs = @ \ {address}]
    /\ ret' = removeResult(FALSE)
    /\ UNCHANGED <<transactions, now, blocks, watchedAddresses, isRunning,
                   lastScannedBlock, cycles, creating, confirmCalls, advancedBy>>
    /\ UNCHANGED <<queueVars, watchedOnBase, boot>>

\* a pending order on the address that expires at time e
ExpiryRow(currency, e) == [MatchRow(currency, 2, TRUE) EXCEPT !.expiredAt = e]

ExpiryRows == {ExpiryRow(cur, e) : cur \in Currencies, e \in 0..MaxTime}

ExpiryInit ==
    /\ QueueEmpty
    /\ ret = NoRet
    /\ transactions \in UNION {[1..n -> ExpiryRows] : n \in 1..MaxOrders}
    /\ now = 0
    /\ blocks \in [1..MaxBlock -> Transfers]
    /\ watchedAddresses = MatchWatch
    /\ watchedOnBase = <<>>
    /\ isRunning = TRUE
    /\ lastScannedBlock = InitialHeight
    /\ cycles = EmptyBag
    /\ creating = EmptyBag
    /\ expiry = ExpiryIdle
    /\ confirmCalls = [o \in 1..MaxOrders |-> 0]
    /\ advancedBy = [h \in Hashes |-> {}]
    /\ boot = Booted

ExpiryNext ==
    \/ ExpireFind
    \/ ExpireUpdate
    \/ ExpireUpdateError
    \/ \E a \in Addresses : ExpireRemoveRead(a)
    \/ \E a \in Addresses : ExpireRemoveError(a)
    \/ ExpireRemove
    \/ Tick
    \/ ScanTick
    \/ \E c \in ActiveCycles, ok \in BOOLEAN : ScanIdle(c, ok)
    \/ \E c \in ActiveCycles : Advance(c)

\* the timers fire and every awaited call returns; a call is not bound to
\* return without an error
ExpiryFairness ==
    /\ WF_vars(ExpireFind)
    /\ WF_vars(ExpireUpdate \/ ExpireUpdateError)
    /\ WF_vars(\E a \in Addresses : ExpireRemoveRead(a) \/ ExpireRemoveError(a))
    /\ WF_vars(ExpireRemove)
    /\ WF_vars(Tick)
    /\ WF_vars(ScanTick)
    /\ WF_vars(\E c \in ActiveCycles, ok \in BOOLEAN : ScanIdle(c, ok))
    /\ WF_vars(\E c \in ActiveCycles : Advance(c))

ExpirySpec == ExpiryInit /\ [][ExpiryNext]_vars /\ ExpiryFairness

(***************************************************************************)
(* Properties of the sweep retry queue                                     *)
(***************************************************************************)
Entries == 1..Len(transferQueue)

RunsOf(id, pcs) == {r \in Active : r.id = id /\ r.pc \in pcs}

Copies(S) == BagCardinality([r \in S |-> CopiesIn(r, runs)])

\* activations of an entry between marking PROCESSING and recording the outcome
InFlight(id) == Copies({r \in Active : r.id = id /\ r.marked})

\* C5: an entry with maxRetries = N is FAILED after N consecutive failed
\* attempts, the sweep executor has run at most N times since the entry was
\* enqueued or manually retried, and no timer-scheduled attempt is pending or
\* started for it afterwards.
C5_RetryCeiling ==
    \A id \in Entries :
        /\ execCount[id] <= transferQueue[id].maxRetries
        /\ failCount[id] >= transferQueue[id].maxRetries =>
              /\ transferQueue[id].status = "FAILED"
              /\ \A r \in Active :
                    (r.id = id /\ r.trigger = "timer") =>
                        r.pc \in {"fail_select", "fail_update", "fail_txupdate"}

\* C6: no two processing runs of one entry are in flight at once.
C6_AtMostOneInFlight == \A id \in Entries : InFlight(id) <= 1

LegalStatusChange ==
    {<<"PENDING", "PROCESSING">>, <<"PROCESSING", "COMPLETED">>,
     <<"PROCESSING", "PENDING">>, <<"PROCESSING", "FAILED">>}

\* C7: every status change of an entry follows the state machine
\* PENDING -> PROCESSING -> COMPLETED | PENDING | FAILED, and FAILED -> PENDING
\* happens only by manual retry; COMPLETED never changes.
C7_StatusMachine ==
    [][\A id \in Entries :
          LET old == transferQueue[id].status
              new == transferQueue'[id].status
          IN old # new =>
               \/ <<old, new>> \in LegalStatusChange
               \/ /\ <<old, new>> = <<"FAILED", "PENDING">>
                  /\ ret'.op = "retryTransfer" /\ ret'.success /\ ret'.id = id]_vars

\* C8: retryTransfer succeeds only for an entry it read as FAILED, and then
\* sets PENDING with retryCount 0 and starts processing; for an entry that is
\* PENDING, PROCESSING, COMPLETED or missing it returns an error, changes no
\* entry and starts no processing.
C8_RetryOnlyFromFailed ==
    [][/\ \A r \in BagToSet(runs') :
             (r.pc = "retry" /\ CopiesIn(r, runs') > CopiesIn(r, runs)) =>
                 /\ r.id \in Entries
                 /\ transferQueue[r.id].status = "FAILED"
                 /\ r.seen = "FAILED"
       /\ ret'.op = "retryTransfer" =>
            IF ret'.success
            THEN /\ \E r \in Active :
                       /\ r.pc = "retry" /\ r.id = ret'.id /\ r.seen = "FAILED"
                       /\ runs' = Step(r, StartRun(r.id, "manual"))
                 /\ transferQueue'[ret'.id].status = "PENDING"
                 /\ transferQueue'[ret'.id].retryCount = 0
            ELSE /\ transferQueue' = transferQueue
                 /\ runs' \sqsubseteq runs
                 /\ ret'.error = "Transfer not found" => ~(ret'.id \in Entries)
                 /\ ret'.error = "Transfer is not in failed state" =>
                        transferQueue[ret'.id].status \in {"PENDING", "PROCESSING", "COMPLETED"}]_vars

\* a manual retry of a FAILED entry has just succeeded
C8_Witness ==
    /\ ret.op = "retryTransfer" /\ ret.success
    /\ transferQueue[ret.id].status = "PENDING"
    /\ failCount[ret.id] = 0

(***************************************************************************)
(* Properties of matching, the watch registry and the scanner              *)
(***************************************************************************)
Persisted == 1..Len(transactions)

\* C1: when interleaved matches select the same order, at most one of them
\* performs the change to crypto_confirmed and the confirmation service is
\* invoked at most once for the order.
C1_SingleConfirmation == \A o \in Persisted : confirmCalls[o] <= 1

\* C2: a transfer that has advanced an order and is then delivered to the
\* matching engine again never selects that order, so the confirmation
\* service is not invoked for it a second time.
C2_RedeliveryIdempotent == \A c \in ActiveCycles : c.again # "rematched"

\* a transfer that had advanced an order was delivered again, and the order
\* has been confirmed once
C2_Witness ==
    \E c \in ActiveCycles :
        /\ c.again = "redelivered"
        /\ \E h \in Hashes : \E o \in advancedBy[h] :
              /\ confirmCalls[o] = 1
              /\ transactions[o].cryptoStatus # "waiting_for_crypto"

\* C3: at most one order is advanced on account of one transfer hash.
C3_OneOrderPerHash == \A h \in Hashes : Cardinality(advancedBy[h]) <= 1

\* C4: every persisted pending order whose expiry lies in the future has its
\* address in the watch registry.
C4_PendingIsWatched ==
    \A o \in Persisted :
        (IsPendingStatus(transactions[o]) /\ transactions[o].expiredAt > now) =>
            transactions[o].sourceAddress \in Watched

\* C9: lastScannedBlock never decreases.
C9_CursorMonotonic == [][lastScannedBlock' >= lastScannedBlock]_vars

\* C10: a cycle whose query fails, or a tick that is skipped, leaves
\* lastScannedBlock unchanged (only a cycle that has processed its response
\* moves it), and every cycle that starts queries from lastScannedBlock, which
\* is the failed cycle's fromBlock when no other cycle has moved the cursor.
C10_FailedCycleRetried ==
    [][/\ lastScannedBlock' # lastScannedBlock =>
             \E c \in ActiveCycles :
                 /\ c.pc = "process" /\ c.events = <<>>
                 /\ cycles' = CycleDrop(c)
                 /\ lastScannedBlock' = c.nextBlock
       /\ \A c \in BagToSet(cycles') :
             (c.pc = "query" /\ CopiesIn(c, cycles') > CopiesIn(c, cycles)) =>
                 /\ c.fromBlock = lastScannedBlock
                 /\ (ret.op = "scanChain" /\ ret.id = lastScannedBlock) =>
                        c.fromBlock = ret.id]_vars

\* a cycle failed and the next tick has started a cycle from the failed
\* cycle's fromBlock
C10_Witness ==
    /\ ret.op = "scanAllChains"
    /\ lastScannedBlock = ret.id
    /\ \E c \in ActiveCycles : c.pc = "query" /\ c.fromBlock = ret.id

\* C11: within the chain, scan cycles are strictly sequential: no cycle
\* starts while an earlier one is in flight.
C11_CyclesSequential == BagCardinality(cycles) <= 1

\* a pending order is persisted for the address
HasPending(address) ==
    \E o \in Persisted :
        /\ transactions[o].sourceAddress = address
        /\ IsPendingStatus(transactions[o])
        /\ transactions[o].expiredAt >= now

\* the removal has returned for the address, on a lookup that found none / some
RemoveOutcome(none, address) ==
    /\ ret'.op = "removeAddressIfNoActiveTransactions"
    /\ IF none
       THEN /\ address \notin DOMAIN watchedAddresses'
            /\ ret'.success = (address \in Watched)
            /\ \A b \in Watched \ {address} :
                  b \in DOMAIN watchedAddresses' /\ watchedAddresses'[b] = watchedAddresses[b]
       ELSE /\ ~ret'.success
            /\ watchedAddresses' = watchedAddresses
            /\ isRunning' = isRunning

ValidRaws == {<<"0", "x">> \o CanonicalBody, UpperBody, <<"0", "X">> \o UpperBody}

\* the input names a supported chain, a valid address and, for a token
\* order, a token configured on the chain
Registrable(chain, raw, currency) ==
    /\ chain \in SupportedChains
    /\ raw \in ValidRaws
    /\ currency = "ETH" \/ TokenConfigured(chain, currency)

\* the row could only come from a registration that returned true
RowRegistrable(tx) ==
    \/ tx.sourceChain = "fiat"
    \/ /\ tx.sourceChain \in SupportedChains
       /\ tx.sourceAddress \in Addresses
       /\ tx.sourceCurrency = "ETH" \/ TokenConfigured(tx.sourceChain, tx.sourceCurrency)

\* C13: createTransaction registers the watch of a crypto order before the
\* insert; when the registration returns false (unsupported chain, unknown
\* token, invalid or missing address) the call fails and persists no row;
\* a fiat order registers no watch and its creation proceeds.
C13_RegistrationGuardsInsert ==
    /\ [](\A o \in Orders : RowRegistrable(transactions[o]))
    /\ [][\A chain \in OrderChains, raw \in RawAddresses,
             cur \in Currencies \cup {"DOGE"}, amt \in Amounts :
             CreateCall(chain, raw, cur, amt) =>
                IF chain = "fiat"
                THEN /\ watchedAddresses' = watchedAddresses
                     /\ BagCardinality(creating') = BagCardinality(creating) + 1
                ELSE IF Registrable(chain, raw, cur)
                THEN /\ "0xa1" \in DOMAIN watchedAddresses'
                     /\ cur # "ETH" => cur \in watchedAddresses'["0xa1"]
                     /\ isRunning'
                     /\ transactions' = transactions
                     /\ BagCardinality(creating') = BagCardinality(creating) + 1
                ELSE /\ ret'.op = "createTransaction" /\ ~ret'.success
                     /\ UNCHANGED <<transactions, creating, watchedAddresses,
                                    watchedOnBase, isRunning, cycles>>]_vars

\* a crypto order and a fiat order are persisted, the crypto order's address
\* is watched, and a further call has failed on its registration
C13_Witness ==
    /\ ret.op = "createTransaction" /\ ret.error = "Failed to start payment monitoring"
    /\ \E o \in Orders : transactions[o].sourceChain = "fiat"
    /\ \E o \in Orders : /\ transactions[o].sourceChain = Chain
                         /\ transactions[o].sourceAddress \in Watched

\* the step is the failing insert of the only createTransaction in flight,
\* and nothing but its own registration has changed the registry since the
\* call began
FailedCreate(cr) ==
    /\ creating = SetToBag({cr})
    /\ creating' = EmptyBag
    /\ cr.chain # "fiat"
    /\ watchedAddresses = addWatch(cr.before, cr.address, cr.currency)

\* C14: a createTransaction that fails after its registration succeeded
\* leaves the watch registry exactly as it was before the call, whatever
\* that registry was, and persists nothing.
C14_FailedCreateRestoresRegistry ==
    [][\A cr \in BagToSet(creating) :
          (FailedCreate(cr) /\ transactions' = transactions) =>
              watchedAddresses' = cr.before]_vars

\* the registry and the running state are what they were
RegistryUnchanged == UNCHANGED <<watchedAddresses, watchedOnBase, isRunning, cycles>>

\* the chain's registry after the step
chainAddressesAfter(chain) == IF chain = Chain THEN watchedAddresses' ELSE watchedOnBase'

PendingOn(address) ==
    getPendingTransactionsByChainAndAddress(transactions, Chain, address, now)

\* the order is the only pending order on the address whose asset and
\* required amount are those of the transfer
OnlyExact(o, tr) ==
    /\ transactions[o].sourceCurrency = TokenOf(tr.kind)
    /\ transactions[o].sourceAmount = tr.amount
    /\ \A i \in 1..Len(PendingOn(tr.to)) :
          (/\ transactions[PendingOn(tr.to)[i]].sourceCurrency = TokenOf(tr.kind)
           /\ transactions[PendingOn(tr.to)[i]].sourceAmount = tr.amount)
             => PendingOn(tr.to)[i] = o

\* C17: when the received amount equals the required amount of one pending
\* order on the address, that order is the one selected (orders of 1.0 and
\* 2.0, a transfer of 2.0: the order of 2.0 is matched).
C17_ExactMatchSelected ==
    \A c \in ActiveCycles :
        c.pc = "update" =>
            \A i \in 1..Len(PendingOn(blocks[c.cur].to)) :
                OnlyExact(PendingOn(blocks[c.cur].to)[i], blocks[c.cur])
                    => c.matched = PendingOn(blocks[c.cur].to)[i]

\* the received amount covers the order's required amount, in base units
Covered(o, tr) ==
    AtLeast(tr.amount, Decimals(TokenOf(tr.kind)),
            transactions[o].sourceAmount, Decimals(transactions[o].sourceCurrency))

\* the ids of the pending orders on the address
PendingSet(address) == {PendingOn(address)[i] : i \in 1..Len(PendingOn(address))}

\* C18: when no pending order on the recipient address requires at most the
\* received amount, the pending order created first is selected, whichever
\* amount is closer (orders of 1.0 and 2.0, a transfer of 0.5: the older one).
C18_FifoFallback ==
    \A c \in ActiveCycles :
        (/\ c.pc = "update"
         /\ \A o \in PendingSet(blocks[c.cur].to) : ~Covered(o, blocks[c.cur])) =>
            /\ c.matched \in PendingSet(blocks[c.cur].to)
            /\ \A o \in PendingSet(blocks[c.cur].to) : c.matched <= o

\* pending orders of 1.0 (older) and 2.0 and a native transfer of 0.5: the
\* older order has been selected
C18_Witness ==
    \E c \in ActiveCycles :
        /\ c.pc = "update" /\ c.matched = 1
        /\ blocks[c.cur].kind = "ETH" /\ blocks[c.cur].amount = 1
        /\ Len(transactions) = 2
        /\ transactions[1] = MatchRow("ETH", 2, TRUE)
        /\ transactions[2] = MatchRow("ETH", 4, TRUE)

\* C19: expireOldTransactions called again right after it has returned, with
\* no change in between (no time has passed since the first call's lookup),
\* finds nothing: it reports count 0 and no address and changes no order; the
\* first call expires every order it found, once, and reports their number.
C19_SecondSweepFindsNothing ==
    /\ []((ret.op = "expireOldTransactions" /\ ret.at = now) =>
             findExpiredTransactions(transactions, now) = {})
    /\ [][(ExpireFind /\ findExpiredTransactions(transactions, now) = {}) =>
             /\ ret'.id = 0 /\ ret'.expiredAddresses = {}
             /\ transactions' = transactions /\ expiry' = expiry]_vars
    /\ [][(expiry.pc = "update" /\ expiry' # expiry) =>
             /\ ret'.op = "expireOldTransactions" /\ ret'.id = Cardinality(expiry.ids)
             /\ \A o \in Orders :
                   IF o \in expiry.ids
                   THEN transactions[o].status # "expired"
                        /\ transactions'[o].status = "expired"
                   ELSE transactions'[o] = transactions[o]]_vars

\* the sweep has expired an order, the worker is through, and a further call
\* at the same time has returned count 0
C19_Witness ==
    /\ ret.op = "expireOldTransactions" /\ ret.id = 0 /\ ret.at = now
    /\ expiry = ExpiryIdle
    /\ \E o \in Orders : transactions[o].status = "expired" /\ transactions[o].expiredAt = now

TerminalStatuses == {"completed", "expired", "failed", "cancelled"}

\* C20: the terminal order states are final: once an order's status is
\* completed, expired, failed or cancelled, no operation (a match calling
\* updateCryptoStatus, the confirmation service, the expiry sweep) changes
\* it again.
C20_TerminalFinal ==
    [][\A o \in Orders :
          transactions[o].status \in TerminalStatuses =>
              transactions'[o].status = transactions[o].status]_vars

(***************************************************************************)
(* Properties of the settlement of a matched order                         *)
(***************************************************************************)
\* C21: once an order's sourceTransactionHash is set, no later step (a further
\* match, the sweep queue's completion update, a status update) changes it
C21_HashWrittenOnce ==
    [][\A o \in Orders :
          transactions[o].sourceTransactionHash # NoHash
              => transactions'[o].sourceTransactionHash
                     = transactions[o].sourceTransactionHash]_vars

\* C22: when the confirmation service has failed for a matched order, the
\* order's cryptoStatus is still crypto_confirmed
C22_FailureKeepsConfirmed ==
    \A c \in ActiveCycles :
        c.confirm # "none" => transactions[c.matched].cryptoStatus = "crypto_confirmed"

\* C23: after a failed balance re-verification the confirmation records
\* balance_verification_failed with status failed and returns an error, no
\* sweep job is enqueued for the order, the destination leg is not run and
\* the order is not confirmed a second time
C23_BalanceFailureFatal ==
    \A c \in ActiveCycles :
        c.balance = "failed" =>
            /\ c.pc \in {"confirm_balance_failed", "remove_read", "remove"}
            /\ c.queued = "none"
            /\ \A i \in 1..Len(transferQueue) : transferQueue[i].transactionId # c.matched
            /\ c.pc # "confirm_balance_failed"
                   => c.confirm \in {"balance_verification_failed", "error"}
            /\ c.confirm = "balance_verification_failed"
                   => /\ transactions[c.matched].cryptoStatus = "balance_verification_failed"
                      /\ transactions[c.matched].status = "failed"
            /\ confirmCalls[c.matched] = 1

C23_Witness ==
    \E c \in ActiveCycles :
        /\ c.balance = "failed" /\ c.confirm = "balance_verification_failed"
        /\ transactions[c.matched].status = "failed"

\* what the destination leg alone leaves in status and cryptoStatus of an
\* order of the given type
statusAfterDestination(type, confirm) ==
    IF confirm = "transfer_failed"
    THEN <<"failed", "token_from_vault_transfer_failed">>
    ELSE <<IF type = "crypto_to_fiat" THEN "processing_payout" ELSE "processing",
           "crypto_confirmed">>

\* C24: whether queueTransfer succeeded or failed, the confirmation goes on to
\* the destination leg, and the order's status after it depends on the
\* destination leg's outcome only
C24_EnqueueFailureDoesNotBlock ==
    /\ [](\A c \in ActiveCycles :
             c.queued # "none" /\ c.confirm # "none" =>
                <<transactions[c.matched].status, transactions[c.matched].cryptoStatus>>
                   = statusAfterDestination(transactions[c.matched].transactionType,
                                           c.confirm))
    /\ [][\A c \in ActiveCycles :
             c.pc = "confirm_enqueue" /\ CopiesIn(c, cycles') < CopiesIn(c, cycles) =>
                /\ \E q \in {"ok", "failed"} :
                      cycles' = CycleStep(c, [c EXCEPT !.pc = "confirm_destination",
                                                       !.queued = q])
                /\ transactions' = transactions]_vars

C24_Witness ==
    \E c \in ActiveCycles :
        /\ c.queued = "failed" /\ c.confirm = "transfer_failed"
        /\ transactions[c.matched].cryptoStatus = "token_from_vault_transfer_failed"

\* C25: a match attempt that has selected an order goes on, whether its status
\* update succeeded or failed, to the confirmation and from there to
\* removeAddressIfNoActiveTransactions; it does not return to the scan without
\* attempting the removal
C25_RemovalAlwaysAttempted ==
    [][\A c \in ActiveCycles :
          c.pc = "update" /\ CopiesIn(c, cycles') < CopiesIn(c, cycles) =>
              \E d \in BagToSet(cycles') :
                  d.pc \in {"confirm", "remove_read"} /\ d.matched = c.matched]_vars

\* C26: the scenario of one order waiting on (ethereum, A) for 1.0 and a
\* transfer of 1.0 to A: when its sweep job has been enqueued and A has been
\* removed from the watch set, the order is crypto_confirmed with status
\* processing (crypto to crypto) or processing_payout (crypto to fiat, with
\* fiatStatus set too)
C26_ScenarioOutcome ==
    (/\ Len(transactions) = 1
     /\ ret = removeResult(TRUE)
     /\ \E i \in 1..Len(transferQueue) : transferQueue[i].transactionId = 1)
    => /\ transactions[1].cryptoStatus = "crypto_confirmed"
       /\ transactions[1].status = IF transactions[1].transactionType = "crypto_to_fiat"
                                   THEN "processing_payout" ELSE "processing"
       /\ transactions[1].transactionType = "crypto_to_fiat"
              => transactions[1].fiatStatus = "processing_payout"

(***************************************************************************)
(* Properties of the scanner's stop and of the expiry worker               *)
(***************************************************************************)
\* C27: a step that stops the scanner cancels no cycle in flight; a cycle in
\* flight can finish (process its results, advance the cursor) while the
\* scanner is stopped; and a cycle is added only by a step after which the
\* scanner runs (a tick of the running scanner, or a start)
C27_StopKeepsCycleInFlight ==
    /\ [](\A c \in ActiveCycles :
             /\ c.pc = "query" => ENABLED ScanIdle(c, TRUE)
             /\ (c.pc = "process" /\ c.events = <<>>) => ENABLED Advance(c))
    /\ [][/\ (isRunning /\ ~isRunning') => cycles' = cycles
          /\ BagCardinality(cycles') > BagCardinality(cycles) => isRunning']_vars

C27_Witness ==
    /\ ~isRunning
    /\ Watched = {}
    /\ ret.op = "scanned"

\* the orders on the address, one at least, are all expired
OnlyExpired(a) ==
    /\ \E o \in Orders : transactions[o].sourceAddress = a
    /\ \A o \in Orders :
          transactions[o].sourceAddress = a => transactions[o].status = "expired"

\* C28: with the expiry timer firing again and again and store errors
\* transient, a watched address whose orders are all expired is eventually
\* released from the registry
C28_ExpiredWatchReleased ==
    \A a \in Addresses : (a \in Watched /\ OnlyExpired(a)) ~> (a \notin Watched)

(***************************************************************************)
(* Properties of the writes to an order                                    *)
(***************************************************************************)
\* C29: once no run of an entry is in flight, an entry whose sweep succeeded
\* (its txHash is stored) is COMPLETED with the fee stored and its order is
\* internal_supply_completed, and an entry that is FAILED has its order at
\* internal_supply_failed
C29_SweepOutcomeOnOrder ==
    \A i \in 1..Len(transferQueue) :
        (\A r \in Active : r.id # i) =>
            /\ transferQueue[i].txHash # NoHash =>
                  /\ transferQueue[i].status = "COMPLETED"
                  /\ transferQueue[i].transferFee = SweepFee
                  /\ transactions[transferQueue[i].transactionId].internalTransferStatus
                        = "internal_supply_completed"
            /\ transferQueue[i].status = "FAILED" =>
                  transactions[transferQueue[i].transactionId].internalTransferStatus
                     = "internal_supply_failed"

\* C30: a step of the sweep queue leaves status, cryptoStatus and fiatStatus of
\* every order as they are, and a step of the matching engine or of the
\* confirmation service leaves internalTransferStatus of every order as it is
C30_PartialOrderUpdates ==
    [][\A o \in Orders :
          /\ cycles' = cycles =>
                /\ transactions'[o].status = transactions[o].status
                /\ transactions'[o].cryptoStatus = transactions[o].cryptoStatus
                /\ transactions'[o].fiatStatus = transactions[o].fiatStatus
          /\ cycles' # cycles =>
                transactions'[o].internalTransferStatus
                   = transactions[o].internalTransferStatus]_vars

C30_Witness ==
    \E o \in Orders :
        /\ transactions[o].internalTransferStatus = "internal_supply_completed"
        /\ transactions[o].cryptoStatus = "token_from_vault_transfer_failed"
        /\ transactions[o].status = "failed"

(***************************************************************************)
(* Properties of repeated and misplaced confirmations                      *)
(***************************************************************************)
\* the entries of the sweep queue that belong to an order
EntriesOf(o) == {i \in 1..Len(transferQueue) : transferQueue[i].transactionId = o}

\* C31: the sweep queue never holds more than one entry for an order, however
\* often the order's confirmation is triggered
C31_OneEntryPerOrder == \A o \in 1..MaxOrders : Cardinality(EntriesOf(o)) <= 1

\* the states in which an order's crypto leg is confirmed and not yet settled
Confirmable(tx) == tx.cryptoStatus = "crypto_confirmed" /\ tx.status # "completed"

\* C36: a step of processConfirmedEvmTransaction for an order that is not in
\* the confirmed state (waiting, completed, failed, expired) enqueues nothing
\* and changes no order
C36_OnlyConfirmedOrdersSettled ==
    [][\A c \in ActiveCycles :
          (/\ c.pc \in {"confirm", "confirm_balance", "confirm_balance_failed",
                        "confirm_enqueue", "confirm_destination"}
           /\ CopiesIn(c, cycles') < CopiesIn(c, cycles)
           /\ c.matched \in Orders
           /\ ~Confirmable(transactions[c.matched]))
          => transferQueue' = transferQueue /\ transactions' = transactions]_vars

\* ---------------------------------------------------------------------
\* The start of the process: the chains are initialized on first use,
\* loadActiveTransactions runs from the startup block while the HTTP
\* server already accepts requests
\* ---------------------------------------------------------------------

\* chains is empty: no configuration, no cursor
NoChains == 0

\* the heights getHeight can return
Heights == InitialHeight..(MaxBlock + 1)

\* an activation of loadActiveTransactions or of an add of the registry,
\* suspended at an await
BootCall(op, pc, after, address, currency) ==
    [op |-> op, pc |-> pc, after |-> after, address |-> address,
     currency |-> currency, todo |-> <<>>]

\* ensureInitialized: chains.size === 0 awaits initializeChains
ensureInitialized(after) == IF boot.initialized THEN after ELSE "height"

BootCalls == BagToSet(boot.calls)

bootReplace(a, b) == (boot.calls (-) SetToBag({a})) (+) SetToBag({b})

bootDrop(a) == boot.calls (-) SetToBag({a})

\* the startup block calls loadActiveTransactions
LoadCall == BootCall("load", "height", "lookup", "0xa1", "ETH")

\* startHypersyncMonitoring of a request, which the server accepts from the
\* start of the process: addAddress or addAddressForToken up to its ensureInitialized
AddRequest(address, currency) ==
    /\ BagCardinality(boot.calls) < MaxCalls
    /\ boot' = [boot EXCEPT !.calls = @ (+) SetToBag({BootCall("add",
                                ensureInitialized("add"), "add", address, currency)})]
    /\ ret' = NoRet
    /\ UNCHANGED <<transactions, now, blocks, watchedAddresses, watchedOnBase,
                   isRunning, lastScannedBlock, cycles, creating, expiry,
                   confirmCalls, advancedBy>>
    /\ UNCHANGED queueVars

\* initializeChains after getHeight: the chain's configuration with the
\* cursor at the height and an empty address map are set, whatever was there;
\* a failure is logged and the chain stays without configuration
InitHeight(a, ok, currentBlock) ==
    /\ a.pc = "height"
    /\ IF ok
       THEN /\ lastScannedBlock' = currentBlock
            /\ watchedAddresses' = <<>>
       ELSE UNCHANGED <<lastScannedBlock, watchedAddresses>>
    /\ boot' = [boot EXCEPT !.initialized = @ \/ ok, !.failed = @ \/ ~ok,
                            !.calls = bootReplace(a, [a EXCEPT !.pc = a.after])]
    /\ ret' = NoRet
    /\ UNCHANGED <<transactions, now, blocks, watchedOnBase, isRunning, cycles,
                   creating, expiry, confirmCalls, advancedBy>>
    /\ UNCHANGED queueVars

InitHeightReturns(a) ==
    \E ok \in BOOLEAN : \E currentBlock \in Heights : InitHeight(a, ok, currentBlock)

\* the filter of loadActiveTransactions over getPendingCryptoTransactions
activeTransactions ==
    {o \in Orders : /\ transactions[o].cryptoStatus \in {"waiting_for_crypto",
                                                        "crypto_pending"}
                    /\ transactions[o].status # "expired"
                    /\ transactions[o].expiredAt > now}

RECURSIVE inIdOrder(_)
inIdOrder(S) ==
    IF S = {} THEN <<>>
    ELSE LET o == CHOOSE x \in S : \A y \in S : x <= y
         IN <<o>> \o inIdOrder(S \ {o})

\* loadActiveTransactions after getPendingCryptoTransactions; a failure of
\* the lookup is caught and logged, nothing is loaded
LoadLookup(a, ok) ==
    /\ a.pc = "lookup"
    /\ boot' = [boot EXCEPT !.failed = @ \/ ~ok, !.calls = bootReplace(a,
                  [a EXCEPT !.pc = "next",
                            !.todo = IF ok THEN inIdOrder(activeTransactions)
                                     ELSE <<>>])]
    /\ ret' = NoRet
    /\ UNCHANGED <<transactions, now, blocks, watchedAddresses, watchedOnBase,
                   isRunning, lastScannedBlock, cycles, creating, expiry,
                   confirmCalls, advancedBy>>
    /\ UNCHANGED queueVars

\* the loop of loadActiveTransactions: the next order's add up to its
\* ensureInitialized, or the end of the loading
LoadNext(a) ==
    /\ a.pc = "next"
    /\ IF a.todo = <<>>
       THEN /\ boot' = [boot EXCEPT !.loaded = TRUE, !.calls = bootDrop(a)]
            /\ ret' = ApiRet("loadActiveTransactions", TRUE)
       ELSE /\ boot' = [boot EXCEPT !.calls = bootReplace(a,
                          [a EXCEPT !.pc = ensureInitialized("add"),
                                    !.after = "add",
                                    !.address = transactions[Head(a.todo)].sourceAddress,
                                    !.currency = transactions[Head(a.todo)].sourceCurrency])]
            /\ ret' = NoRet
    /\ UNCHANGED <<transactions, now, blocks, watchedAddresses, watchedOnBase,
                   isRunning, lastScannedBlock, cycles, creating, expiry,
                   confirmCalls, advancedBy>>
    /\ UNCHANGED queueVars

\* addAddress / addAddressForToken after ensureInitialized: a chain without
\* configuration is refused, else the address is added and checkAndStart runs
BootAdd(a) ==
    /\ a.pc = "add"
    /\ IF boot.initialized
       THEN Registered(Chain, addWatch(watchedAddresses, a.address, a.currency))
       ELSE UNCHANGED <<watchedAddresses, watchedOnBase, isRunning, cycles>>
    /\ IF a.op = "load"
       THEN /\ boot' = [boot EXCEPT !.calls = bootReplace(a,
                          [a EXCEPT !.pc = "next", !.todo = Tail(a.todo)])]
            /\ ret' = NoRet
       ELSE /\ boot' = [boot EXCEPT !.calls = bootDrop(a)]
            /\ ret' = [ApiRet("addAddress", boot.initialized) EXCEPT
                           !.error = a.address]
    /\ UNCHANGED <<transactions, now, blocks, lastScannedBlock, creating, expiry,
                   confirmCalls, advancedBy>>
    /\ UNCHANGED queueVars

\* pending orders with a deadline before or after the start, and expired ones
BootRows == ExpiryRows \cup {MatchRow(cur, 2, FALSE) : cur \in Currencies}

\* the process starts: nothing is initialized, nothing is watched and the
\* startup block has called loadActiveTransactions
BootInit ==
    /\ QueueEmpty
    /\ ret = NoRet
    /\ transactions \in UNION {[1..n -> BootRows] : n \in 0..MaxOrders}
    /\ now = 0
    /\ blocks \in [1..MaxBlock -> Transfers]
    /\ watchedAddresses = <<>>
    /\ watchedOnBase = <<>>
    /\ isRunning = FALSE
    /\ lastScannedBlock = NoChains
    /\ cycles = EmptyBag
    /\ creating = EmptyBag
    /\ expiry = ExpiryIdle
    /\ confirmCalls = [o \in 1..MaxOrders |-> 0]
    /\ advancedBy = [h \in Hashes |-> {}]
    /\ boot = [initialized |-> FALSE, loaded |-> FALSE, failed |-> FALSE,
               calls |-> SetToBag({LoadCall})]

BootNext ==
    \/ \E address \in Addresses : \E currency \in Currencies :
           AddRequest(address, currency)
    \/ \E a \in BootCalls : InitHeightReturns(a)
    \/ \E a \in BootCalls : \E ok \in BOOLEAN : LoadLookup(a, ok)
    \/ \E a \in BootCalls : LoadNext(a)
    \/ \E a \in BootCalls : BootAdd(a)

BootSpec == BootInit /\ [][BootNext]_vars

\* C32: once loadActiveTransactions has completed, no call of the chain client
\* or of the store having failed, the address of every order whose crypto leg
\* is pending and whose deadline has not passed is in the registry, and the
\* cursor of an initialized chain is a height that was read, never the start
\* of the chain
C32_LoadedRegistryComplete ==
    (boot.loaded /\ ~boot.failed) =>
        /\ \A o \in activeTransactions : transactions[o].sourceAddress \in Watched
        /\ boot.initialized => lastScannedBlock \in Heights

\* C39: once the chain is initialized, no step of a first-use call replaces
\* its address map or moves its cursor: the addresses stay and the cursor
\* keeps its value
C39_InitializedOnce ==
    [][boot.initialized =>
          /\ Watched \subseteq DOMAIN watchedAddresses'
          /\ lastScannedBlock' = lastScannedBlock]_vars

\* C33: no entry is left behind in PENDING or PROCESSING: an entry that no
\* activation, timer or retry call is working on, which nothing will ever
\* process again, has reached COMPLETED or FAILED
C33_NoEntryLeftBehind ==
    \A id \in Entries :
        (\A r \in Active : r.id # id) =>
            transferQueue[id].status \in {"COMPLETED", "FAILED"}

\* C34: a failure that raises retryCount to k below maxRetries schedules the
\* next attempt 2^k seconds later, 2 s and then 4 s with maxRetries = 3, and a
\* failure that reaches maxRetries schedules no attempt
C34_ExponentialBackoff ==
    [][/\ \A t \in BagToSet(runs') :
              (t.pc = "timer" /\ CopiesIn(t, runs') > CopiesIn(t, runs)) =>
                  LET k == transferQueue'[t.id].retryCount
                  IN /\ transferQueue'[t.id].status = "PENDING"
                     /\ k < transferQueue'[t.id].maxRetries
                     /\ t.delay = 2 ^ k
                     /\ transferQueue'[t.id].maxRetries = 3 => t.delay \in {2, 4}
       /\ \A r \in Active :
              (/\ r.pc = "fail_update"
               /\ r.rc + 1 >= transferQueue[r.id].maxRetries
               /\ CopiesIn(r, runs') < CopiesIn(r, runs)) =>
                  \A t \in BagToSet(runs') :
                      (t.pc = "timer" /\ t.id = r.id) =>
                          CopiesIn(t, runs') <= CopiesIn(t, runs)]_vars

\* the second retry is waiting for its 4 seconds
C34_Witness ==
    \E t \in Active : /\ t.pc = "timer"
                      /\ t.delay = 4
                      /\ transferQueue[t.id].retryCount = 2
                      /\ failCount[t.id] = 2

\* ---------------------------------------------------------------------
\* The pending-order lookup on the stored address strings
\* ---------------------------------------------------------------------

\* an address as the insert stores it: the lower-case form, and the
\* checksummed form with capital hex digits after the 0x prefix
ChecksumAddress == <<"0", "x">> \o UpperBody

StoredAddresses == {<<"0", "x">> \o CanonicalBody, ChecksumAddress}

\* the string validateAndNormalizeAddress returns: "0x" + cleanAddress
normalizedString(raw) == <<"0", "x">> \o stripPrefix(toLowerCase(raw))

\* an order row whose sourceAddress is the string the insert was given
LookupRow(stored, currency, e) ==
    [ExpiryRow(currency, e) EXCEPT !.sourceAddress = stored]

LookupRows == {LookupRow(stored, cur, e) : stored \in StoredAddresses,
                                           cur \in Currencies, e \in 0..MaxTime}

\* the registry after startHypersyncMonitoring of each order of the table
watchOf(txs) ==
    [a \in {validateAndNormalizeAddress(txs[i].sourceAddress) : i \in 1..Len(txs)} |->
        {txs[i].sourceCurrency : i \in 1..Len(txs)} \ {"ETH"}]

LookupRet(address, found) ==
    [op |-> "getPendingTransactionsByChainAndAddress",
     id |-> IF found = <<>> THEN 0 ELSE Head(found),
     success |-> found # <<>>, error |-> address]

\* processTransactionMatch, the lookup for the recipient of a transfer
LookupForMatch(recipient) ==
    /\ ret' = LookupRet(validateAndNormalizeAddress(recipient),
                        getPendingTransactionsByChainAndAddress(transactions, Chain,
                            toLowerCase(recipient), now))
    /\ UNCHANGED <<transactions, now, blocks, watchedAddresses, isRunning,
                   lastScannedBlock, cycles, creating, expiry, confirmCalls, advancedBy>>
    /\ UNCHANGED <<queueVars, watchedOnBase, boot>>

\* removeAddressIfNoActiveTransactions: the lookup for the normalized address
\* and the removal when it returns nothing; a store error is caught
RemoveIfNoActive(address, ok) ==
    /\ validateAndNormalizeAddress(address) # "null"
    /\ LET found == getPendingTransactionsByChainAndAddress(transactions, Chain,
                        normalizedString(address), now)
       IN /\ watchedAddresses' =
                 IF ok /\ found = <<>>
                 THEN removeAddress(watchedAddresses, validateAndNormalizeAddress(address))
                 ELSE watchedAddresses
          /\ ret' = [op |-> "removeAddressIfNoActiveTransactions", id |-> 0,
                     success |-> /\ ok /\ found = <<>>
                                 /\ validateAndNormalizeAddress(address) \in Watched,
                     error |-> validateAndNormalizeAddress(address)]
    /\ UNCHANGED <<transactions, now, blocks, isRunning, lastScannedBlock, cycles,
                   creating, expiry, confirmCalls, advancedBy>>
    /\ UNCHANGED <<queueVars, watchedOnBase, boot>>

LookupInit ==
    /\ QueueEmpty
    /\ ret = NoRet
    /\ transactions \in UNION {[1..n -> LookupRows] : n \in 0..MaxOrders}
    /\ now = 0
    /\ blocks \in [1..MaxBlock -> Transfers]
    /\ watchedAddresses = watchOf(transactions)
    /\ watchedOnBase = <<>>
    /\ isRunning = (transactions # <<>>)
    /\ lastScannedBlock = InitialHeight
    /\ cycles = EmptyBag
    /\ creating = EmptyBag
    /\ expiry = ExpiryIdle
    /\ confirmCalls = [o \in 1..MaxOrders |-> 0]
    /\ advancedBy = [h \in Hashes |-> {}]
    /\ boot = Booted

LookupNext ==
    \/ \E recipient \in StoredAddresses : LookupForMatch(recipient)
    \/ \E address \in StoredAddresses : \E ok \in BOOLEAN : RemoveIfNoActive(address, ok)
    \/ Tick

LookupSpec == LookupInit /\ [][LookupNext]_vars

\* the orders with a pending crypto leg whose deadline has not passed and
\* whose stored address normalizes to the address
pendingOn(address) ==
    {o \in Orders : /\ IsPendingStatus(transactions[o])
                    /\ transactions[o].expiredAt >= now
                    /\ validateAndNormalizeAddress(transactions[o].sourceAddress) = address}

\* C35: the lookup for a normalized address returns an order exactly when a
\* pending order is stored under that address in any letter case, and the
\* address of a pending order stays watched
C35_CaseInsensitiveLookup ==
    /\ ret.op = "getPendingTransactionsByChainAndAddress" =>
           (ret.success <=> pendingOn(ret.error) # {})
    /\ \A o \in Orders :
           (IsPendingStatus(transactions[o]) /\ transactions[o].expiredAt >= now) =>
               validateAndNormalizeAddress(transactions[o].sourceAddress) \in Watched

\* C37: the bulk update of expireOldTransactions never overwrites an order
\* that a match has advanced to crypto_confirmed since the sweep looked the
\* expired orders up: such an order keeps its status and cryptoStatus
C37_SweepSparesConfirmed ==
    [][\A o \in Orders :
          (/\ expiry.pc = "update"
           /\ expiry'.pc # "update"
           /\ transactions[o].cryptoStatus = "crypto_confirmed") =>
              /\ transactions'[o].status # "expired"
              /\ transactions'[o].cryptoStatus # "expired"]_vars

\* ---------------------------------------------------------------------
\* An address added while the scanner runs for another address
\* ---------------------------------------------------------------------

\* another user's address, watched before the start
OtherAddress == AddressOf(UpperBody)

\* the scanner runs for the other address, the cursor is at the height read
\* at the initialization and no block has been scanned
WatchInit ==
    /\ QueueEmpty
    /\ ret = NoRet
    /\ transactions = <<>>
    /\ now = 0
    /\ blocks \in [1..MaxBlock -> Transfers]
    /\ watchedAddresses = [a \in {OtherAddress} |-> {}]
    /\ watchedOnBase = <<>>
    /\ isRunning = TRUE
    /\ lastScannedBlock = InitialHeight
    /\ cycles = EmptyBag
    /\ creating = EmptyBag
    /\ expiry = ExpiryIdle
    /\ confirmCalls = [o \in 1..MaxOrders |-> 0]
    /\ advancedBy = [h \in Hashes |-> {}]
    /\ boot = Booted

WatchNext ==
    \/ \E raw \in ValidRaws : AddAddressCall(raw, Chain)
    \/ \E raw \in ValidRaws : RemoveAddressCall(raw, Chain)
    \/ ScanTick
    \/ \E c \in ActiveCycles, ok \in BOOLEAN, next \in 1..(MaxBlock + 1) : QueryReturn(c, ok, next)
    \/ \E c \in ActiveCycles : MatchRead(c)
    \/ \E c \in ActiveCycles : Advance(c)
    \/ Tick

\* the interval fires, every query returns (with or without an error), of
\* the queries sent again and again one is eventually answered up to the
\* height of the chain, and every cycle goes on to its end
WatchFairness ==
    /\ WF_vars(ScanTick)
    /\ WF_vars(\E c \in ActiveCycles, ok \in BOOLEAN, next \in 1..(MaxBlock + 1) :
                   QueryReturn(c, ok, next))
    /\ SF_vars(\E c \in ActiveCycles : QueryReturn(c, TRUE, MaxBlock + 1))
    /\ WF_vars(\E c \in ActiveCycles : MatchRead(c))
    /\ WF_vars(\E c \in ActiveCycles : Advance(c))

WatchSpec == WatchInit /\ [][WatchNext]_vars /\ WatchFairness

\* no response has covered the block: the cursor has not passed it and no
\* cycle has received a response, so the block can still be included
NotYetScanned(h) ==
    /\ lastScannedBlock <= h
    /\ \A c \in ActiveCycles : c.pc = "query"

\* a response has handed the transfer of the block to processResults
HandedToMatching(h) ==
    \E c \in ActiveCycles : c.pc = "process" /\ \E i \in 1..Len(c.events) : c.events[i] = h

\* C38: a native transfer to an address, in a block included after the address
\* was added to the registry, is eventually handed to the matching engine when
\* the address stays watched, whether or not a cycle was in flight when the
\* address was added: if the address is added before any response has covered
\* the block and is watched from then on, the transfer is eventually handed on
C38_AddedAddressScanned ==
    \A h \in 1..MaxBlock : \A a \in Addresses :
        (blocks[h].to = a /\ blocks[h].kind = "ETH") =>
            ([](a \in Watched \/ NotYetScanned(h)) => <>HandedToMatching(h))

\* C40: a transfer advances an order only if the asset transferred is the
\* order's source asset: every order a transfer has moved to crypto_confirmed
\* declares the native asset for a native transfer and the token for a token
\* transfer
C40_AssetMatchesOrder ==
    \A h \in Hashes : \A o \in advancedBy[h] :
        o \in Orders => transactions[o].sourceCurrency = TokenOf(blocks[h].kind)

====
